---- MODULE Spec2Model ----
(***************************************************************************)
(* Evidence-linked interview report: the report normalizer of              *)
(* src/lib/report.ts (second definition set of the file, lines 1668-3677), *)
(* its calibration rule and the interval merge of report.ts and            *)
(* coverage.ts.                                                            *)
(*                                                                         *)
(* Numbers: a JavaScript number x is held as the integer 100 * x           *)
(* (hundredths), so 4.5 is 450, a relevance of 0.64 is 64 and the merge    *)
(* tolerance of 0.05 s is 5.  Quotients that are not integers are kept as  *)
(* fractions [num, den] and compared by cross-multiplication.              *)
(*                                                                         *)
(* Untyped JSON values are tagged records [t, v]: t is the JavaScript      *)
(* type ("undefined", "null", "boolean", "number", "NaN", "string",        *)
(* "array", "object") and v the value.                                     *)
(***************************************************************************)
EXTENDS Integers, Sequences, FiniteSets, TLC

VARIABLES
    requestBody,     \* ReportRequestBody: [segments, rubric] handed to normalizeReportResponse
    payload,         \* the untrusted payload
    normalized,      \* result of normalizeFromUnknown (first pass)
    report,          \* result of normalizeReportResponse / createMockReport
    pc,              \* position in normalizeReportResponse
    intervals,       \* input of mergeIntervals
    epsilonSeconds,  \* tolerance handed to mergeIntervals
    merged,          \* report.ts mergeIntervals(intervals)
    remerged,        \* report.ts mergeIntervals(merged)
    covMerged,       \* coverage.ts mergeIntervals(intervals)
    covRemerged,     \* coverage.ts mergeIntervals(covMerged)
    mergePc,         \* "input", "merged", "remerged", "covMerged", "done"
    calDims,         \* input of deriveCalibratedRecommendation
    calAlt,          \* calDims with one dimension changed
    calRec,          \* deriveCalibratedRecommendation(calDims)
    calAltRec,       \* deriveCalibratedRecommendation(calAlt)
    calPc,           \* "input", "calibrated", "lowered", "flipped"
    postRequest,     \* POST /api/report: [json, mock]: the body text parsed, and ?mock=1
    apiKey,          \* process.env.OPENAI_API_KEY: a string or undefined
    completion,      \* what fetch(OPENAI_CHAT_COMPLETIONS_URL) gives: [fetched, ok, payload]
    postResponse,    \* the NextResponse of POST: [status, body]
    postPc,          \* "received", "awaiting", "responded"
    transcriptions,  \* review page: questionId -> segments, or undefined
    reports,         \* review page: questionId -> stored report, or undefined
    reportLoadingByQuestionId,  \* review page: questionId -> boolean
    reportErrorByQuestionId,    \* review page: questionId -> message
    reportFetchByQuestionId,    \* review page: questionId -> the fetch of generateReport
    coverageInput,   \* coverage: [segments, dimensions, activeDimensionId, durationSeconds, epsilonSeconds]
    rawIntervals,    \* coverage.ts rawIntervals: [built, afterMerge]
    coverageModel,   \* what buildCoverageModel returns
    reportCoverage,  \* report.ts createCoverageMap on the same segments: [durationSeconds, coverageMap]
    coveragePc,      \* "input", "model", "done"
    fieldsBody,      \* string lists: the request, [segments, rubric] with labels
    fieldsPayload,   \* string lists: the untrusted payload
    fieldsNormalized,  \* string lists: result of normalizeFromUnknown
    fieldsReport,    \* string lists: result of normalizeReportResponse
    fieldsPc,        \* "start", "normalized", "done"
    againReport,     \* normalizeReportResponse(report, requestBody)
    againPc,         \* "idle", "done", "threw"
    cacheState,      \* review cache: the ReviewCacheState of the page, [transcriptions, reports]
    storageItem,     \* review cache: localStorage item, null or a text [t, text, parsed]
    loadedCache,     \* review cache: what loadReviewCache returned
    cachePc,         \* "idle", "ready", "saved", "loaded", "reloaded"
    transcribeLoadingByQuestionId,  \* review page: questionId -> boolean
    transcribeErrorByQuestionId,    \* review page: questionId -> message
    transcribeFetchByQuestionId,    \* review page: questionId -> the fetch of transcribeRecording
    activeQuestionId,        \* interview page: question id, 0 for null
    isFinalizing,            \* interview page: boolean
    mediaRecorderRef,        \* interview page: the recorder (and its stream) held by the refs, 0 for null
    recordingQuestionIdRef,  \* interview page: question id, 0 for null
    autoStopTimeoutRef,      \* interview page: the timer held by the ref, 0 for null
    pendingTimers,           \* interview page: the auto-stop timers that can still fire
    startCalls,              \* interview page: call -> [question, pc] of startRecording
    recorderState,           \* interview page: recorder -> "none", "inactive", "recording"
    finalizeCalls,           \* interview page: recorder -> position of the finalizeRecording of its onstop
    metadataStore,           \* recording store: questionId -> metadata row, for the keys present
    chunkStore,              \* recording store: chunk key -> chunk row, for the keys present
    appendedChunks           \* history: questionId -> the blobs appended since the rows were last emptied

normVars == <<requestBody, payload, normalized, report, pc>>
mergeVars == <<intervals, epsilonSeconds, merged, remerged, covMerged, covRemerged, mergePc>>
calVars == <<calDims, calAlt, calRec, calAltRec, calPc>>
postVars == <<postRequest, apiKey, completion, postResponse, postPc>>
reviewVars == <<transcriptions, reports, reportLoadingByQuestionId, reportErrorByQuestionId,
                reportFetchByQuestionId>>
coverageVars == <<coverageInput, rawIntervals, coverageModel, reportCoverage, coveragePc>>
fieldVars == <<fieldsBody, fieldsPayload, fieldsNormalized, fieldsReport, fieldsPc>>
againVars == <<againReport, againPc>>
cacheVars == <<cacheState, storageItem, loadedCache, cachePc>>
transcribeVars == <<transcribeLoadingByQuestionId, transcribeErrorByQuestionId,
                    transcribeFetchByQuestionId>>
recordVars == <<activeQuestionId, isFinalizing, mediaRecorderRef, recordingQuestionIdRef,
                autoStopTimeoutRef, pendingTimers, startCalls, recorderState, finalizeCalls>>
storeVars == <<metadataStore, chunkStore, appendedChunks>>
moreVars == <<fieldVars, againVars, cacheVars, transcribeVars, recordVars, storeVars>>
vars == <<normVars, mergeVars, calVars, postVars, reviewVars, coverageVars, moreVars>>

(***************************************************************************)
(* Bounds of the model.                                                    *)
(***************************************************************************)
MaxIntervals == 3    \* longest interval list handed to mergeIntervals
MaxTime == 3         \* largest interval bound, in hundredths of a second
MaxEps == 1          \* largest tolerance, in hundredths of a second
MaxCalDims == 2      \* longest assessment list handed to calibration
MaxDims == 3         \* longest rubric of a request
MaxSegs == 2         \* most transcript segments of a request
MaxCands == 2        \* most candidate dimensions of a modern payload
MaxItems == 2        \* most items of a legacy payload

(***************************************************************************)
(* JavaScript values.                                                      *)
(***************************************************************************)
Undef == [t |-> "undefined", v |-> 0]
Null == [t |-> "null", v |-> 0]
NaN == [t |-> "NaN", v |-> 0]
Bool(b) == [t |-> "boolean", v |-> b]
Num(n) == [t |-> "number", v |-> n]
Str(s) == [t |-> "string", v |-> s]
Arr(s) == [t |-> "array", v |-> s]
Obj(r) == [t |-> "object", v |-> r]

\* value[f]: undefined for a missing property
Get(o, f) == IF o.t = "object" /\ f \in DOMAIN o.v THEN o.v[f] ELSE Undef

\* reading a property of undefined or null raises a TypeError
ReadThrows(o) == o.t \in {"undefined", "null"}

\* typeof value === "number" (NaN included)
TypeofNumber(x) == x.t \in {"number", "NaN"}

Min(a, b) == IF a <= b THEN a ELSE b
Max(a, b) == IF a >= b THEN a ELSE b

\* String.prototype.trim over the strings of the model: the padded strings
\* lose their padding, every other string is unchanged.
Trim(s) ==
    CASE s = " problemSolving " -> "problemSolving"
      [] s = " s1 " -> "s1"
      [] s = " a " -> "a"
      [] s = "  " -> ""
      [] OTHER -> s

\* Number(value) of a string: the numeric strings of the model, else NaN
StringToNumber(s) ==
    CASE s = "2" -> Num(200)
      [] s = "4" -> Num(400)
      [] s = "" -> Num(0)
      [] s = "1" -> Num(100)
      [] s = "0" -> Num(0)
      [] s = "-1" -> Num(-100)
      [] s = "1.5" -> Num(150)
      [] OTHER -> NaN

isRecord(value) == value.t \in {"object", "array"}

isNonEmptyString(value) == value.t = "string" /\ Trim(value.v) # ""

\* clamp on finite numbers (hundredths)
clamp(value, lo, hi) == Min(hi, Max(lo, value))

\* Math.round on hundredths: floor(x + 0.5)
MathRound(n) == ((n + 50) \div 100) * 100

toNormalizedString(value, fallback) ==
    IF value.t # "string" THEN fallback
    ELSE IF Trim(value.v) # "" THEN Trim(value.v) ELSE fallback

\* a finite number as Num(n), or Null
toFiniteNumber(value) ==
    IF value.t = "number" THEN value
    ELSE IF value.t = "string" /\ StringToNumber(value.v).t = "number"
         THEN StringToNumber(value.v)
         ELSE Null

toRelevance(value) ==
    LET numeric == toFiniteNumber(value) IN
    IF numeric.t = "null" THEN Null
    ELSE IF numeric.v > 100 /\ numeric.v <= 10000
         THEN Num(clamp(numeric.v \div 100, 0, 100))
         ELSE Num(clamp(numeric.v, 0, 100))

toStrength(value) ==
    IF value.t = "string" /\ value.v \in {"weak", "medium", "strong"} THEN value ELSE Null

strengthFromRelevance(relevance) ==
    IF relevance >= 75 THEN "strong"
    ELSE IF relevance >= 45 THEN "medium"
    ELSE "weak"

relevanceFromStrength(strength) ==
    IF strength = "strong" THEN 84
    ELSE IF strength = "medium" THEN 62
    ELSE 38

RECOMMENDATIONS == {"StrongHire", "Hire", "LeanHire", "LeanNo", "No"}

CORE_DIMENSION_KEYS == {"clarity", "problemSolving", "ownership"}

recommendationRank(value) ==
    CASE value = "No" -> 0
      [] value = "LeanNo" -> 1
      [] value = "LeanHire" -> 2
      [] value = "Hire" -> 3
      [] value = "StrongHire" -> 4

\* variant of capRecommendation that returns the cap whatever the value
capAlwaysMaxAllowed(value, maxAllowed) == maxAllowed

capRecommendation(value, maxAllowed) ==
    IF recommendationRank(value) <= recommendationRank(maxAllowed) THEN value ELSE maxAllowed

(***************************************************************************)
(* The weighted score is computed in IEEE 754 double arithmetic, and 0.35, *)
(* 0.2, 3.8, 3.2 are no doubles.  A double is the record [q, e] standing   *)
(* for the number (q * 2^54 + e) / (100 * 2^54): q hundredths and an error *)
(* of e units, one unit being 2^-54 hundredths.  In the binade             *)
(* [2^k, 2^(k+1)) the doubles are the multiples of 2^(k-52), which is      *)
(* 100 * 2^(k+2) units, so that rounding to nearest, ties to even, needs   *)
(* only q * 2^54 modulo the grid.  The numbers that occur lie in            *)
(* [0.125, 16).                                                            *)
(***************************************************************************)
Grids == {50, 100, 200, 400, 800, 1600, 3200}

RECURSIVE TwoPowMod(_, _)
\* 2^n modulo m
TwoPowMod(n, m) == IF n = 0 THEN 1 % m ELSE (2 * TwoPowMod(n - 1, m)) % m

\* 2^54 modulo a grid, half a grid or two grids
TwoTo54Mod == [m \in {25} \cup Grids \cup {2 * g : g \in Grids} |-> TwoPowMod(54, m)]

\* distance in units between neighbouring doubles around q * 2^54 + d
GridOf(q, d) ==
    LET grid == CHOOSE g \in Grids : g <= 4 * q /\ 4 * q < 2 * g
    IN IF 4 * q = grid /\ d < 0 THEN grid \div 2 ELSE grid

\* (q * 2^54) modulo m
ScaledMod(q, m) == ((q % m) * TwoTo54Mod[m]) % m

\* ties go to the grid point with the even significand
NearestStep(below, rest, grid, floorIsOdd) ==
    IF 2 * rest < grid THEN below
    ELSE IF 2 * rest > grid THEN below + 1
    ELSE IF (below % 2 = 1) # floorIsOdd THEN below + 1 ELSE below

\* the grid point nearest to q * 2^54 + d, `rem` being q * 2^54 modulo the grid
RoundOnGrid(q, d, grid, rem) ==
    [q |-> q,
     e |-> grid * NearestStep((rem + d) \div grid, (rem + d) % grid, grid,
                              ScaledMod(q, 2 * grid) >= grid)
           - rem]

\* the double nearest to (q * 2^54 + d) / (100 * 2^54)
RoundDouble(q, d) ==
    IF q = 0 /\ d = 0 THEN [q |-> 0, e |-> 0]
    ELSE RoundOnGrid(q, d, GridOf(q, d), ScaledMod(q, GridOf(q, d)))

\* the decimal literals of the source, in hundredths, as doubles
DecimalLiterals ==
    [hundredths \in {0, 20, 25, 35, 100, 250, 260, 320, 330, 380, 420, 450}
        |-> RoundDouble(hundredths, 0)]

\* a decimal literal of the source, given in hundredths
DoubleLiteral(hundredths) == DecimalLiterals[hundredths]

\* weight * score for a whole score
DoubleTimes(double, whole) == RoundDouble(double.q * whole, double.e * whole)

DoublePlus(left, right) == RoundDouble(left.q + right.q, left.e + right.e)

HasEvenSignificand(double) ==
    LET grid == GridOf(double.q, double.e)
    IN (ScaledMod(double.q, 2 * grid) + double.e) % (2 * grid) = 0

\* sign of p * 2^108 + r * 2^54 + s for r, s far below 2^54
SignOfScaled(p, r, s) ==
    IF p # 0 THEN (IF p > 0 THEN 1 ELSE -1)
    ELSE IF r # 0 THEN (IF r > 0 THEN 1 ELSE -1)
    ELSE IF s # 0 THEN (IF s > 0 THEN 1 ELSE -1)
    ELSE 0

weightForDimension(dimensionKey) ==
    IF dimensionKey = "problemSolving" THEN DoubleLiteral(35)
    ELSE IF dimensionKey = "ownership" THEN DoubleLiteral(25)
    ELSE IF dimensionKey = "clarity" THEN DoubleLiteral(20)
    ELSE DoubleLiteral(20)

\* weightedScore is the quotient num / den of two doubles, den > 0.  The
\* rounded quotient is >= a threshold double exactly when the quotient is
\* above the midpoint between the threshold and the double below it, or on
\* it when the tie rounds to the threshold.
QuotientGE(num, den, hundredths, threshold, halfGrid) ==
    LET sign == SignOfScaled(100 * num.q - den.q * hundredths,
                             100 * num.e - den.q * (threshold.e - halfGrid) - den.e * hundredths,
                             0 - den.e * (threshold.e - halfGrid))
    IN sign > 0 \/ (sign = 0 /\ HasEvenSignificand(threshold))

FracGE(f, hundredths) ==
    QuotientGE(f.num, f.den, hundredths, DoubleLiteral(hundredths),
               GridOf(hundredths, 0) \div 2)

\* a quotient of whole numbers against a threshold in hundredths
FracLT(f, hundredths) == f.num < hundredths * f.den

baseRecommendationFromWeightedScore(weightedScore) ==
    IF FracGE(weightedScore, 450) THEN "StrongHire"
    ELSE IF FracGE(weightedScore, 380) THEN "Hire"
    ELSE IF FracGE(weightedScore, 320) THEN "LeanHire"
    ELSE IF FracGE(weightedScore, 250) THEN "LeanNo"
    ELSE "No"

(***************************************************************************)
(* Calibration: deriveCalibratedRecommendation (report.ts 1922-2007).      *)
(* A Dimension Assessment is the object                                    *)
(*   {id, score, notObserved, evidence, evidenceCoverage}.                 *)
(***************************************************************************)
isObserved(dimension) ==
    ~dimension.v.notObserved.v /\ TypeofNumber(dimension.v.score)

\* dimensions.filter(...)
observedDimensions(dimensions) == SelectSeq(dimensions, isObserved)

\* one step of the reduce; the score is a whole number
weightedStep(accumulator, weight, score) ==
    [weightedScore |-> DoublePlus(accumulator.weightedScore, DoubleTimes(weight, score)),
     weight |-> DoublePlus(accumulator.weight, weight)]

RECURSIVE weightedTotals(_, _)
\* the reduce over the first k observed dimensions: sums of weight * score and of weight
weightedTotals(observed, k) ==
    IF k = 0 THEN [weightedScore |-> DoubleLiteral(0), weight |-> DoubleLiteral(0)]
    ELSE weightedStep(weightedTotals(observed, k - 1),
                      weightForDimension(observed[k].v.id.v),
                      observed[k].v.score.v \div 100)

\* citedSegmentCount / availableSegmentCount of one dimension, in hundredths, as a fraction
\* (both counts are whole numbers)
coverageTerm(dimension) ==
    LET coverage == dimension.v.evidenceCoverage.v IN
    IF coverage.availableSegmentCount.v > 0
    THEN [num |-> coverage.citedSegmentCount.v, den |-> coverage.availableSegmentCount.v \div 100]
    ELSE [num |-> 0, den |-> 1]

RECURSIVE coverageSum(_, _)
coverageSum(dimensions, k) ==
    IF k = 0 THEN [num |-> 0, den |-> 1]
    ELSE LET sum == coverageSum(dimensions, k - 1)
             value == coverageTerm(dimensions[k])
         IN [num |-> sum.num * value.den + value.num * sum.den, den |-> sum.den * value.den]

\* mean coverage ratio over all dimensions, in hundredths, as a fraction
coverageRatioOf(dimensions) ==
    IF Len(dimensions) > 0
    THEN LET sum == coverageSum(dimensions, Len(dimensions))
         IN [num |-> sum.num, den |-> sum.den * Len(dimensions)]
    ELSE [num |-> 0, den |-> 1]

hasCoreNotObserved(dimensions) ==
    \E i \in 1..Len(dimensions) :
        /\ dimensions[i].v.id.v \in CORE_DIMENSION_KEYS
        /\ (dimensions[i].v.notObserved.v \/ dimensions[i].v.score.t = "null")

isLowScore(dimension) ==
    TypeofNumber(dimension.v.score) /\ dimension.v.score.t = "number" /\ dimension.v.score.v <= 200

lowScoreCount(dimensions) == Len(SelectSeq(dimensions, isLowScore))

\* variant of applyCaps that applies no cap
applyNoCaps(base, dimensions, coverageRatio) == base

\* the three caps, applied in the order of the code
applyCaps(base, dimensions, coverageRatio) ==
    LET afterCore == IF hasCoreNotObserved(dimensions)
                     THEN capRecommendation(base, "LeanHire") ELSE base
        afterCoverage == IF FracLT(coverageRatio, 35)
                         THEN capRecommendation(afterCore, "LeanHire") ELSE afterCore
    IN IF lowScoreCount(dimensions) >= 2
       THEN capRecommendation(afterCoverage, "LeanNo") ELSE afterCoverage

deriveCalibratedRecommendation(dimensions) ==
    LET observed == observedDimensions(dimensions) IN
    IF Len(observed) = 0
    THEN [recommendation |-> "LeanNo",
          weightedScore |-> [num |-> DoubleLiteral(0), den |-> DoubleLiteral(100)],
          coverageRatio |-> [num |-> 0, den |-> 1]]
    ELSE LET totals == weightedTotals(observed, Len(observed))
             weightedScore == IF totals.weight.q > 0
                              THEN [num |-> totals.weightedScore, den |-> totals.weight]
                              ELSE [num |-> DoubleLiteral(0), den |-> DoubleLiteral(100)]
             coverageRatio == coverageRatioOf(dimensions)
         IN [recommendation |->
                 applyCaps(baseRecommendationFromWeightedScore(weightedScore),
                           dimensions, coverageRatio),
             weightedScore |-> weightedScore,
             coverageRatio |-> coverageRatio]

(***************************************************************************)
(* Interval merge: report.ts 2447-2472 on {start, end} and coverage.ts     *)
(* 56-90 on {start, end, segmentIds}.                                      *)
(***************************************************************************)
RECURSIVE InsertByStart(_, _, _)
\* x placed after every entry of the sorted list s[1..k] whose start is <= x.start
InsertByStart(s, k, x) ==
    IF k = 0 THEN <<x>> \o s
    ELSE IF s[k].start <= x.start
         THEN SubSeq(s, 1, k) \o <<x>> \o SubSeq(s, k + 1, Len(s))
         ELSE InsertByStart(s, k - 1, x)

\* variant of sortByStart that keeps the order of the input
keepInputOrder(s, k) == SubSeq(s, 1, k)

RECURSIVE sortByStart(_, _)
\* [...intervals].sort((a, b) => a.start - b.start): a stable sort of the first k entries
sortByStart(s, k) ==
    IF k = 0 THEN <<>>
    ELSE LET sorted == sortByStart(s, k - 1) IN InsertByStart(sorted, Len(sorted), s[k])

RECURSIVE sweepIntervals(_, _, _)
\* the for loop of report.ts mergeIntervals over the first k sorted intervals
sweepIntervals(sorted, k, eps) ==
    IF k = 0 THEN <<>>
    ELSE LET mergedSoFar == sweepIntervals(sorted, k - 1, eps)
             interval == sorted[k]
         IN IF mergedSoFar = <<>> THEN <<interval>>
            ELSE LET last == mergedSoFar[Len(mergedSoFar)] IN
                 IF interval.start <= last.end + eps
                 THEN [mergedSoFar EXCEPT ![Len(mergedSoFar)].end = Max(last.end, interval.end)]
                 ELSE Append(mergedSoFar, interval)

RECURSIVE sweepAgainstPrevious(_, _, _)
\* a sweep that goes wrong: the next interval is compared with the previous sorted
\* interval instead of the running merged interval
sweepAgainstPrevious(sorted, k, eps) ==
    IF k = 0 THEN <<>>
    ELSE LET mergedSoFar == sweepAgainstPrevious(sorted, k - 1, eps)
             interval == sorted[k]
         IN IF mergedSoFar = <<>> THEN <<interval>>
            ELSE LET last == mergedSoFar[Len(mergedSoFar)] IN
                 IF interval.start <= sorted[k - 1].end + eps
                 THEN [mergedSoFar EXCEPT ![Len(mergedSoFar)].end = Max(last.end, interval.end)]
                 ELSE Append(mergedSoFar, interval)

mergeIntervalsAgainstPrevious(list, eps) ==
    IF Len(list) = 0 THEN <<>>
    ELSE sweepAgainstPrevious(sortByStart(list, Len(list)), Len(list), eps)

mergeIntervals(list, eps) ==
    IF Len(list) = 0 THEN <<>>
    ELSE sweepIntervals(sortByStart(list, Len(list)), Len(list), eps)

RECURSIVE appendNew(_, _, _)
\* Array.from(new Set([...a, ...b])): a, then the first k entries of b not yet present
appendNew(a, b, k) ==
    IF k = 0 THEN a
    ELSE LET sofar == appendNew(a, b, k - 1) IN
         IF \E i \in 1..Len(sofar) : sofar[i] = b[k] THEN sofar ELSE Append(sofar, b[k])

\* Array.from(new Set(a)): the entries of a, first occurrences only
uniqueInOrder(a) == appendNew(<<>>, a, Len(a))

RECURSIVE sweepCoverageIntervals(_, _, _)
\* the for loop of coverage.ts mergeIntervals over the first k sorted intervals
sweepCoverageIntervals(sorted, k, eps) ==
    IF k = 0 THEN <<>>
    ELSE LET mergedSoFar == sweepCoverageIntervals(sorted, k - 1, eps)
             interval == sorted[k]
         IN IF mergedSoFar = <<>> THEN <<interval>>
            ELSE LET previous == mergedSoFar[Len(mergedSoFar)] IN
                 IF interval.start <= previous.end + eps
                 THEN [mergedSoFar EXCEPT ![Len(mergedSoFar)] =
                          [start |-> previous.start,
                           end |-> Max(previous.end, interval.end),
                           segmentIds |-> uniqueInOrder(previous.segmentIds \o interval.segmentIds)]]
                 ELSE Append(mergedSoFar, interval)

coverageMergeIntervals(list, eps) ==
    IF Len(list) = 0 THEN <<>>
    ELSE sweepCoverageIntervals(sortByStart(list, Len(list)), Len(list), eps)

\* the {start, end} part of tagged intervals
stripSegmentIds(list) == [i \in 1..Len(list) |-> [start |-> list[i].start, end |-> list[i].end]]

(***************************************************************************)
(* Normalization context (report.ts 2063-2113).  A segment is              *)
(* [id, start, end]; a rubric descriptor is [key].                         *)
(***************************************************************************)
\* clamp(value, lo, Number.MAX_SAFE_INTEGER): the upper limit is above every
\* time of the model, so only the lower limit acts
clampToSafeInteger(value, lo) == Max(lo, value)

\* one segment of normalizedContextFromRequest: start clamped to >= 0, end to >= start
normalizeSegment(segment) ==
    LET start == clampToSafeInteger(segment.start, 0)
        end == Max(start, clampToSafeInteger(segment.end, start))
    IN [id |-> segment.id, start |-> start, end |-> end]

\* variant of enforceSegmentValidationOfRequest: validation switched off
neverEnforceSegmentValidation == FALSE

\* enforceSegmentValidation: true in normalizedContextFromRequest
enforceSegmentValidationOfRequest == TRUE

normalizedContextFromRequest(body) ==
    LET segments == [i \in 1..Len(body.segments) |-> normalizeSegment(body.segments[i])] IN
    [dimensions |-> body.rubric,
     availableSegmentCount |-> Len(segments),
     segments |-> segments,
     enforceSegmentValidation |-> enforceSegmentValidationOfRequest]

normalizeOptions(options) ==
    LET segments == [i \in 1..Len(options.segments) |->
                        [id |-> options.segments[i].id,
                         start |-> clampToSafeInteger(options.segments[i].start, 0),
                         end |-> Max(clampToSafeInteger(options.segments[i].start, 0),
                                     clampToSafeInteger(options.segments[i].end, 0))]]
    IN [dimensions |-> options.dimensions,
        availableSegmentCount |-> Max(1, options.availableSegmentCount),
        segments |-> segments,
        enforceSegmentValidation |-> Len(segments) > 0]

\* new Map(segments.map(s => [s.id, s])).has(id)
segmentByIdHas(segments, id) == \E i \in 1..Len(segments) : segments[i].id = id

\* new Map(segments.map(s => [s.id, s])).get(id): a later entry with the same
\* id replaces an earlier one
segmentByIdGet(segments, id) ==
    LET last == CHOOSE i \in 1..Len(segments) :
                    /\ segments[i].id = id
                    /\ \A j \in (i + 1)..Len(segments) : segments[j].id # id
    IN segments[last]

(***************************************************************************)
(* Evidence (report.ts 2115-2214).  An evidence entry is the object        *)
(* {segmentId, strength, relevance}.                                       *)
(***************************************************************************)
RECURSIVE pickedFallback(_, _, _, _)
\* the loop of pickFallbackEvidenceSegments after `offsets` iterations
pickedFallback(context, dimensionIndex, targetCount, offsets) ==
    IF offsets = 0 THEN <<>>
    ELSE LET picked == pickedFallback(context, dimensionIndex, targetCount, offsets - 1)
             n == Len(context.segments)
             segment == context.segments[((dimensionIndex + offsets - 1) % n) + 1]
         IN IF Len(picked) >= targetCount THEN picked
            ELSE IF \E i \in 1..Len(picked) : picked[i].id = segment.id THEN picked
            ELSE Append(picked, segment)

pickFallbackEvidenceSegments(context, dimensionIndex, desiredCount) ==
    IF Len(context.segments) = 0 \/ desiredCount <= 0 THEN <<>>
    ELSE pickedFallback(context, dimensionIndex,
                        Min(desiredCount, Len(context.segments)), Len(context.segments))

hasSegmentId(result, segmentId) == \E i \in 1..Len(result) : result[i].v.segmentId.v = segmentId

\* the guard `if (!isRecord(entry)) continue` of normalizeEvidence
evidenceEntryIsRead(entry) == isRecord(entry)

\* the relevance chain of one candidate entry
entryRelevance(entry, notObserved) ==
    LET rawStrength == toStrength(Get(entry, "strength")) IN
    IF toRelevance(Get(entry, "relevance")).t # "null" THEN toRelevance(Get(entry, "relevance")).v
    ELSE IF toRelevance(Get(entry, "confidence")).t # "null"
         THEN toRelevance(Get(entry, "confidence")).v
    ELSE IF rawStrength.t # "null" THEN relevanceFromStrength(rawStrength.v)
    ELSE IF notObserved THEN 45 ELSE 70

entryStrength(entry, relevance) ==
    LET rawStrength == toStrength(Get(entry, "strength")) IN
    IF rawStrength.t # "null" THEN rawStrength.v ELSE strengthFromRelevance(relevance)

MkEvidence(segmentId, strength, relevance) ==
    Obj([segmentId |-> Str(segmentId), strength |-> Str(strength), relevance |-> Num(relevance)])

RECURSIVE candidateEvidence(_, _, _, _)
\* the loop of normalizeEvidence over the first k entries of the candidate array
candidateEvidence(entries, k, context, notObserved) ==
    IF k = 0 THEN <<>>
    ELSE LET result == candidateEvidence(entries, k - 1, context, notObserved)
             entry == entries[k]
             rawSegmentId == toNormalizedString(Get(entry, "segmentId"), "")
         IN IF ~evidenceEntryIsRead(entry) THEN result
            ELSE IF rawSegmentId = "" \/ hasSegmentId(result, rawSegmentId) THEN result
            ELSE IF context.enforceSegmentValidation
                    /\ ~segmentByIdHas(context.segments, rawSegmentId) THEN result
            ELSE Append(result,
                        MkEvidence(rawSegmentId,
                                   entryStrength(entry, entryRelevance(entry, notObserved)),
                                   entryRelevance(entry, notObserved)))

RECURSIVE backfilledEvidence(_, _, _)
\* the back-fill loop of normalizeEvidence over the first k fallback segments
backfilledEvidence(result, fallbackSegments, k) ==
    IF k = 0 THEN result
    ELSE LET sofar == backfilledEvidence(result, fallbackSegments, k - 1) IN
         IF hasSegmentId(sofar, fallbackSegments[k].id) THEN sofar
         ELSE Append(sofar, MkEvidence(fallbackSegments[k].id, "medium", 64))

\* variant of filledEvidence that returns the candidate entries as they are
evidenceUncut(result, context, dimensionIndex, notObserved) == result

\* the part of normalizeEvidence after the loop over the candidate entries:
\* back-fill up to the desired minimum, then slice(0, 4)
filledEvidence(result, context, dimensionIndex, notObserved) ==
    LET desiredMinimum == IF notObserved THEN 0 ELSE Min(2, Len(context.segments))
        fallbackSegments == pickFallbackEvidenceSegments(context, dimensionIndex,
                                                         desiredMinimum - Len(result))
        filled == IF Len(result) < desiredMinimum
                  THEN backfilledEvidence(result, fallbackSegments, Len(fallbackSegments))
                  ELSE result
    IN SubSeq(filled, 1, Min(4, Len(filled)))

normalizeEvidence(rawValue, context, dimensionIndex, notObserved) ==
    filledEvidence(IF rawValue.t = "array"
                   THEN candidateEvidence(rawValue.v, Len(rawValue.v), context, notObserved)
                   ELSE <<>>,
                   context, dimensionIndex, notObserved)

\* a TypeError in normalizeEvidence: an entry that is read is undefined or null
normalizeEvidenceThrows(rawValue) ==
    /\ rawValue.t = "array"
    /\ \E k \in 1..Len(rawValue.v) :
           evidenceEntryIsRead(rawValue.v[k]) /\ ReadThrows(rawValue.v[k])

(***************************************************************************)
(* normalizeDimension (report.ts 2300-2445): id, score, notObserved,       *)
(* evidence and evidenceCoverage of the returned assessment.               *)
(***************************************************************************)
\* variant of rawRecordOf without the isRecord guard
rawDimensionUnguarded(rawDimension) == rawDimension

\* const rawRecord = isRecord(rawDimension) ? rawDimension : {}
rawRecordOf(rawDimension) == IF isRecord(rawDimension) THEN rawDimension ELSE Obj(<<>>)

notObservedOf(rawRecord) ==
    IF Get(rawRecord, "notObserved").t = "boolean" THEN Get(rawRecord, "notObserved").v ELSE FALSE

\* variant of scoreOf that keeps the score of a dimension that is not observed
scoreIgnoringNotObserved(rawRecord, notObserved) ==
    LET rawScore == toFiniteNumber(Get(rawRecord, "score")) IN
    IF rawScore.t = "null" THEN Null ELSE Num(clamp(MathRound(rawScore.v), 100, 500))

scoreOf(rawRecord, notObserved) ==
    LET rawScore == toFiniteNumber(Get(rawRecord, "score")) IN
    IF notObserved \/ rawScore.t = "null" THEN Null
    ELSE Num(clamp(MathRound(rawScore.v), 100, 500))

\* new Set(evidence.map(e => e.segmentId)).size
citedSegmentCountOf(evidence) ==
    Cardinality({evidence[i].v.segmentId.v : i \in 1..Len(evidence)})

\* the object returned by normalizeDimension
assessmentOf(descriptor, rawRecord, notObserved, evidence, context) ==
    Obj([id |-> Str(descriptor.key),
         score |-> scoreOf(rawRecord, notObserved),
         notObserved |-> Bool(notObserved),
         evidence |-> Arr(evidence),
         evidenceCoverage |->
             Obj([citedSegmentCount |-> Num(100 * citedSegmentCountOf(evidence)),
                  availableSegmentCount |-> Num(100 * context.availableSegmentCount)])])

normalizeDimension(rawDimension, descriptor, dimensionIndex, context) ==
    assessmentOf(descriptor,
                 rawRecordOf(rawDimension),
                 notObservedOf(rawRecordOf(rawDimension)),
                 normalizeEvidence(Get(rawRecordOf(rawDimension), "evidence"), context,
                                   dimensionIndex, notObservedOf(rawRecordOf(rawDimension))),
                 context)

normalizeDimensionThrows(rawDimension) ==
    \/ ReadThrows(rawRecordOf(rawDimension))
    \/ normalizeEvidenceThrows(Get(rawRecordOf(rawDimension), "evidence"))

(***************************************************************************)
(* Coverage map (report.ts 2474-2566).  coveragePct is in hundredths of a  *)
(* percent; byDimension and bySegment are functions over the keys of the   *)
(* JavaScript objects.                                                     *)
(***************************************************************************)
COVERAGE_EPSILON_SECONDS == 5

RECURSIVE maxSegmentEnd(_, _)
maxSegmentEnd(segments, k) ==
    IF k = 0 THEN 0 ELSE Max(maxSegmentEnd(segments, k - 1), segments[k].end)

deriveDurationSeconds(segments) ==
    LET maxEnd == maxSegmentEnd(segments, Len(segments)) IN
    IF maxEnd > 0 THEN maxEnd ELSE 100

RECURSIVE coveredSecondsOf(_, _)
coveredSecondsOf(mergedIntervals, k) ==
    IF k = 0 THEN 0
    ELSE coveredSecondsOf(mergedIntervals, k - 1)
             + Max(mergedIntervals[k].end - mergedIntervals[k].start, 0)

\* Math.round(clamp(part / whole * 100, 0, 100) * 10) / 10, in hundredths of a percent
roundedPct(part, whole) ==
    LET tenths == (2000 * part + whole) \div (2 * whole) IN 10 * clamp(tenths, 0, 1000)

evidenceSegmentIds(dimension) ==
    [i \in 1..Len(dimension.v.evidence.v) |-> dimension.v.evidence.v[i].v.segmentId.v]

RECURSIVE knownOnly(_, _, _)
\* ids.filter(id => segmentById.has(id)) over the first k ids
knownOnly(ids, k, segments) ==
    IF k = 0 THEN <<>>
    ELSE IF segmentByIdHas(segments, ids[k])
         THEN Append(knownOnly(ids, k - 1, segments), ids[k])
         ELSE knownOnly(ids, k - 1, segments)

\* segment ids a dimension contributes to the coverage map built from timing
coveredSegmentIds(dimension, segments) ==
    LET ids == evidenceSegmentIds(dimension) IN uniqueInOrder(knownOnly(ids, Len(ids), segments))

coverageIntervals(segmentIds, segments, durationSeconds) ==
    [i \in 1..Len(segmentIds) |->
        LET segment == segmentByIdGet(segments, segmentIds[i]) IN
        [start |-> clamp(segment.start, 0, durationSeconds),
         end |-> clamp(Max(segment.end, segment.start), 0, durationSeconds)]]

coverageEntry(dimension, segments) ==
    LET durationSeconds == deriveDurationSeconds(segments)
        segmentIds == coveredSegmentIds(dimension, segments)
        mergedIntervals == mergeIntervals(coverageIntervals(segmentIds, segments, durationSeconds),
                                          COVERAGE_EPSILON_SECONDS)
    IN [segmentIds |-> segmentIds,
        coveragePct |-> roundedPct(coveredSecondsOf(mergedIntervals, Len(mergedIntervals)),
                                   durationSeconds)]

coverageEntryFromEvidence(dimension, availableSegmentCount) ==
    LET segmentIds == uniqueInOrder(evidenceSegmentIds(dimension)) IN
    [segmentIds |-> segmentIds,
     coveragePct |-> roundedPct(Len(segmentIds), Max(1, availableSegmentCount))]

\* variant of dimensionsCiting that records only the first dimension citing the segment
firstDimensionCiting(dimensions, entries, k, segmentId) ==
    LET citing == {i \in 1..k : \E j \in 1..Len(entries[i].segmentIds) :
                                    entries[i].segmentIds[j] = segmentId}
    IN IF citing = {} THEN <<>>
       ELSE <<dimensions[CHOOSE i \in citing : \A j \in citing : i <= j].v.id.v>>

RECURSIVE dimensionsCiting(_, _, _, _)
\* bySegment[segmentId].dimensions after the first k dimensions
dimensionsCiting(dimensions, entries, k, segmentId) ==
    IF k = 0 THEN <<>>
    ELSE LET sofar == dimensionsCiting(dimensions, entries, k - 1, segmentId)
             cited == \E j \in 1..Len(entries[k].segmentIds) : entries[k].segmentIds[j] = segmentId
             id == dimensions[k].v.id.v
         IN IF cited /\ ~(\E j \in 1..Len(sofar) : sofar[j] = id) THEN Append(sofar, id) ELSE sofar

\* byDimension[id] = entry: the assignment of a later dimension with the same id
\* replaces that of an earlier one
byDimensionOf(dimensions, entries) ==
    [id \in {dimensions[i].v.id.v : i \in 1..Len(dimensions)} |->
        LET last == CHOOSE i \in 1..Len(dimensions) :
                        /\ dimensions[i].v.id.v = id
                        /\ \A j \in (i + 1)..Len(dimensions) : dimensions[j].v.id.v # id
        IN entries[last]]

bySegmentOf(dimensions, entries) ==
    [segmentId \in UNION {{entries[i].segmentIds[j] : j \in 1..Len(entries[i].segmentIds)} :
                             i \in 1..Len(entries)} |->
        [dimensions |-> dimensionsCiting(dimensions, entries, Len(dimensions), segmentId)]]

createCoverageMap(dimensions, segments) ==
    LET entries == [i \in 1..Len(dimensions) |-> coverageEntry(dimensions[i], segments)] IN
    [byDimension |-> byDimensionOf(dimensions, entries),
     bySegment |-> bySegmentOf(dimensions, entries)]

createCoverageMapFromEvidence(dimensions, availableSegmentCount) ==
    LET entries == [i \in 1..Len(dimensions) |->
                       coverageEntryFromEvidence(dimensions[i], availableSegmentCount)] IN
    [byDimension |-> byDimensionOf(dimensions, entries),
     bySegment |-> bySegmentOf(dimensions, entries)]

(***************************************************************************)
(* Leveling (report.ts 2009-2043).                                         *)
(***************************************************************************)
deriveLeveling(weightedScore) ==
    IF FracGE(weightedScore, 420) THEN "senior"
    ELSE IF FracGE(weightedScore, 330) THEN "mid"
    ELSE IF FracGE(weightedScore, 260) THEN "newgrad"
    ELSE "intern"

toReportLevel(value) ==
    IF value.t = "string" /\ value.v \in {"intern", "newgrad", "mid", "senior"} THEN value ELSE Null

normalizeLeveling(value, fallback) ==
    IF ~isRecord(value) THEN fallback
    ELSE IF toReportLevel(Get(value, "level")).t # "null"
         THEN toReportLevel(Get(value, "level")).v
         ELSE fallback

(***************************************************************************)
(* normalizeModernReport (report.ts 2649-2707).  A Scorecard is the object *)
(* {overallRecommendation, dimensions, leveling, coverageMap}.             *)
(***************************************************************************)
\* the guard `if (!isRecord(candidate)) continue` of the sourceById loop
candidateIsRead(candidate) == isRecord(candidate)

sourceDimensionsOf(sourceReport) ==
    IF Get(sourceReport, "dimensions").t = "array" THEN Get(sourceReport, "dimensions").v ELSE <<>>

isCandidateFor(candidate, key) ==
    /\ candidateIsRead(candidate)
    /\ toNormalizedString(Get(candidate, "id"), "") # ""
    /\ toNormalizedString(Get(candidate, "id"), "") = key

\* sourceById.get(key): the first candidate whose trimmed id is key, else undefined
sourceByIdGet(sourceDimensions, key) ==
    IF \E i \in 1..Len(sourceDimensions) : isCandidateFor(sourceDimensions[i], key)
    THEN sourceDimensions[CHOOSE i \in 1..Len(sourceDimensions) :
                              /\ isCandidateFor(sourceDimensions[i], key)
                              /\ \A j \in 1..(i - 1) : ~isCandidateFor(sourceDimensions[j], key)]
    ELSE Undef

\* variant of normalizedDimensionsOf that maps over the candidates of the payload
normalizedDimensionsOfCandidates(sourceReport, context) ==
    [i \in 1..Len(sourceDimensionsOf(sourceReport)) |->
        normalizeDimension(sourceDimensionsOf(sourceReport)[i],
                           [key |-> toNormalizedString(Get(sourceDimensionsOf(sourceReport)[i], "id"), "")],
                           i - 1, context)]

\* context.dimensions.map((descriptor, index) => normalizeDimension(...))
normalizedDimensionsOf(sourceReport, context) ==
    [i \in 1..Len(context.dimensions) |->
        normalizeDimension(sourceByIdGet(sourceDimensionsOf(sourceReport), context.dimensions[i].key),
                           context.dimensions[i], i - 1, context)]

MkScorecard(recommendation, dimensions, level, coverageMap) ==
    Obj([overallRecommendation |-> Str(recommendation),
         dimensions |-> Arr(dimensions),
         leveling |-> Obj([level |-> Str(level)]),
         coverageMap |-> coverageMap])

\* the Scorecard returned by normalizeModernReport for its normalizedDimensions
scorecardOf(sourceReport, context, normalizedDimensions) ==
    LET calibration == deriveCalibratedRecommendation(normalizedDimensions) IN
    MkScorecard(calibration.recommendation,
                normalizedDimensions,
                normalizeLeveling(Get(sourceReport, "leveling"),
                                  deriveLeveling(calibration.weightedScore)),
                IF Len(context.segments) > 0
                THEN createCoverageMap(normalizedDimensions, context.segments)
                ELSE createCoverageMapFromEvidence(normalizedDimensions,
                                                   context.availableSegmentCount))

normalizeModernReport(sourceReport, context) ==
    scorecardOf(sourceReport, context, normalizedDimensionsOf(sourceReport, context))

normalizeModernReportThrows(sourceReport, context) ==
    \/ ReadThrows(sourceReport)
    \/ \E i \in 1..Len(sourceDimensionsOf(sourceReport)) :
           /\ candidateIsRead(sourceDimensionsOf(sourceReport)[i])
           /\ ReadThrows(sourceDimensionsOf(sourceReport)[i])
    \/ \E i \in 1..Len(context.dimensions) :
           normalizeDimensionThrows(
               sourceByIdGet(sourceDimensionsOf(sourceReport), context.dimensions[i].key))

(***************************************************************************)
(* Legacy payloads (report.ts 2709-2776, 3065-3099).                       *)
(***************************************************************************)
isLegacyEvidenceEntry(entry) ==
    /\ isRecord(entry)
    /\ isNonEmptyString(Get(entry, "segmentId"))
    /\ Get(entry, "quote").t = "string"
    /\ Get(entry, "confidence").t = "number"

isLegacyItem(item) ==
    /\ isRecord(item)
    /\ isNonEmptyString(Get(item, "dimensionKey"))
    /\ Get(item, "score").t = "number"
    /\ Get(item, "claim").t = "string"
    /\ Get(item, "evidence").t = "array"
    /\ \A k \in 1..Len(Get(item, "evidence").v) :
           isLegacyEvidenceEntry(Get(item, "evidence").v[k])

isLegacyReportResponseBody(value) ==
    /\ isRecord(value)
    /\ Get(value, "summary").t = "string"
    /\ Get(value, "items").t = "array"
    /\ \A k \in 1..Len(Get(value, "items").v) : isLegacyItem(Get(value, "items").v[k])

legacyItemsOf(legacyReport) ==
    IF Get(legacyReport, "items").t = "array" THEN Get(legacyReport, "items").v ELSE <<>>

isItemFor(item, key) == Get(item, "dimensionKey").t = "string" /\ Get(item, "dimensionKey").v = key

itemByKeyHas(legacyItems, key) == \E i \in 1..Len(legacyItems) : isItemFor(legacyItems[i], key)

\* itemByKey.get(key): a later item with the same dimensionKey replaces an earlier one
itemByKeyGet(legacyItems, key) ==
    legacyItems[CHOOSE i \in 1..Len(legacyItems) :
                    /\ isItemFor(legacyItems[i], key)
                    /\ \A j \in (i + 1)..Len(legacyItems) : ~isItemFor(legacyItems[j], key)]

\* relevance: toRelevance(entry.confidence) ?? 0.65
legacyEvidenceEntry(entry) ==
    Obj([segmentId |-> Get(entry, "segmentId"),
         strength |-> Str("medium"),
         relevance |-> IF toRelevance(Get(entry, "confidence")).t # "null"
                       THEN toRelevance(Get(entry, "confidence"))
                       ELSE Num(65)])

\* clamp(Math.round(legacyItem.score), 1, 5); clamp returns its minimum for a non-finite value
legacyScore(legacyItem) ==
    LET numeric == toFiniteNumber(Get(legacyItem, "score")) IN
    IF numeric.t = "null" THEN Num(100) ELSE Num(clamp(MathRound(numeric.v), 100, 500))

\* one element of modernLike.dimensions
legacyDimension(legacyItems, descriptor, context) ==
    IF itemByKeyHas(legacyItems, descriptor.key)
    THEN LET legacyItem == itemByKeyGet(legacyItems, descriptor.key)
             entries == IF Get(legacyItem, "evidence").t = "array"
                        THEN Get(legacyItem, "evidence").v ELSE <<>>
             evidenceEntries == [k \in 1..Len(entries) |-> legacyEvidenceEntry(entries[k])]
         IN Obj([id |-> Str(descriptor.key),
                 score |-> legacyScore(legacyItem),
                 notObserved |-> Bool(FALSE),
                 evidence |-> Arr(evidenceEntries),
                 evidenceCoverage |->
                     Obj([citedSegmentCount |-> Num(100 * Len(evidenceEntries)),
                          availableSegmentCount |-> Num(100 * context.availableSegmentCount)])])
    ELSE Obj([id |-> Str(descriptor.key),
              score |-> Null,
              notObserved |-> Bool(TRUE),
              evidence |-> Arr(<<>>),
              evidenceCoverage |->
                  Obj([citedSegmentCount |-> Num(0),
                       availableSegmentCount |-> Num(100 * context.availableSegmentCount)])])

modernLikeOf(legacyReport, context) ==
    Obj([overallSummary |-> Get(legacyReport, "summary"),
         dimensions |-> Arr([i \in 1..Len(context.dimensions) |->
                                legacyDimension(legacyItemsOf(legacyReport),
                                                context.dimensions[i], context)])])

fromLegacyReport(legacyReport, options) ==
    LET context == normalizeOptions(options) IN
    normalizeModernReport(modernLikeOf(legacyReport, context), context)

\* a TypeError in fromLegacyReport: an item or an evidence entry that is not an
\* object, an evidence that has no map, or a quote that is not a string
fromLegacyReportThrows(legacyReport, options) ==
    LET legacyItems == legacyItemsOf(legacyReport) IN
    \/ ReadThrows(legacyReport)
    \/ \E i \in 1..Len(legacyItems) : ReadThrows(legacyItems[i])
    \/ \E i \in 1..Len(legacyItems) :
           LET evidence == Get(legacyItems[i], "evidence") IN
           /\ \E d \in 1..Len(options.dimensions) :
                  /\ itemByKeyHas(legacyItems, options.dimensions[d].key)
                  /\ itemByKeyGet(legacyItems, options.dimensions[d].key) = legacyItems[i]
           /\ \/ evidence.t \notin {"undefined", "null", "array"}
              \/ /\ evidence.t = "array"
                 /\ \E k \in 1..Len(evidence.v) :
                        \/ ReadThrows(evidence.v[k])
                        \/ Get(evidence.v[k], "quote").t # "string"

(***************************************************************************)
(* Mock report (report.ts 2778-2923, 2925-3017, 3351-3377).                *)
(***************************************************************************)
getDimensionScoreForMock(index) == <<400, 300, 500, 200>>[(index % 4) + 1]

mockEvidence(fallbackSegments, dimensionIndex) ==
    [k \in 1..Len(fallbackSegments) |->
        MkEvidence(fallbackSegments[k].id,
                   IF k = 1 THEN "strong" ELSE "medium",
                   clamp(70 - 8 * (k - 1) + 3 * dimensionIndex, 45, 92))]

createMockDimension(descriptor, dimensionIndex, context, forceNotObserved) ==
    IF forceNotObserved
    THEN Obj([id |-> Str(descriptor.key),
              score |-> Null,
              notObserved |-> Bool(TRUE),
              evidence |-> Arr(<<>>),
              evidenceCoverage |->
                  Obj([citedSegmentCount |-> Num(0),
                       availableSegmentCount |-> Num(100 * context.availableSegmentCount)])])
    ELSE LET fallbackSegments == pickFallbackEvidenceSegments(context, dimensionIndex, 2)
             evidence == mockEvidence(fallbackSegments, dimensionIndex)
         IN Obj([id |-> Str(descriptor.key),
                 score |-> Num(getDimensionScoreForMock(dimensionIndex)),
                 notObserved |-> Bool(FALSE),
                 evidence |-> Arr(evidence),
                 evidenceCoverage |->
                     Obj([citedSegmentCount |-> Num(100 * Len(evidence)),
                          availableSegmentCount |-> Num(100 * context.availableSegmentCount)])])

\* the recommendation and the level chosen by createMockTopLevel
createMockTopLevel(dimensions) ==
    LET calibrated == deriveCalibratedRecommendation(dimensions) IN
    [overallRecommendation |-> calibrated.recommendation,
     leveling |-> deriveLeveling(calibrated.weightedScore)]

\* the dimensions built by createMockReport
mockDimensionsOf(context) ==
    LET notObservedIndex == IF Len(context.dimensions) >= 3 THEN Len(context.dimensions) - 1 ELSE -1 IN
    [i \in 1..Len(context.dimensions) |->
        createMockDimension(context.dimensions[i], i - 1, context, i - 1 = notObservedIndex)]

\* the Scorecard returned by createMockReport for its dimensions
mockScorecardOf(dimensions, context) ==
    LET topLevel == createMockTopLevel(dimensions) IN
    MkScorecard(topLevel.overallRecommendation, dimensions, topLevel.leveling,
                createCoverageMap(dimensions, context.segments))

createMockReport(body) ==
    mockScorecardOf(mockDimensionsOf(normalizedContextFromRequest(body)),
                    normalizedContextFromRequest(body))

(***************************************************************************)
(* normalizeFromUnknown and normalizeReportResponse (report.ts 3317-3349). *)
(* A payload that passes isModernReportResponseBody is a record, and both  *)
(* branches call normalizeModernReport(payload, context).                  *)
(***************************************************************************)
legacyOptionsOf(context) ==
    [dimensions |-> context.dimensions,
     availableSegmentCount |-> context.availableSegmentCount,
     segments |-> context.segments]

normalizeFromUnknown(value, context) ==
    IF isLegacyReportResponseBody(value) THEN fromLegacyReport(value, legacyOptionsOf(context))
    ELSE IF isRecord(value) THEN normalizeModernReport(value, context)
    ELSE createMockReport([segments |-> context.segments, rubric |-> context.dimensions])

normalizeFromUnknownThrows(value, context) ==
    IF isLegacyReportResponseBody(value)
    THEN \/ fromLegacyReportThrows(value, legacyOptionsOf(context))
         \/ normalizeModernReportThrows(
                modernLikeOf(value, normalizeOptions(legacyOptionsOf(context))),
                normalizeOptions(legacyOptionsOf(context)))
    ELSE IF isRecord(value) THEN normalizeModernReportThrows(value, context)
    ELSE FALSE

normalizeReportResponse(value, body) ==
    LET context == normalizedContextFromRequest(body) IN
    normalizeModernReport(normalizeFromUnknown(value, context), context)

(***************************************************************************)
(* Idle values: a specification about one part of the program holds the    *)
(* variables of the other parts at these values.                           *)
(***************************************************************************)
NormIdle ==
    /\ requestBody = [segments |-> <<>>, rubric |-> <<>>]
    /\ payload = Undef
    /\ normalized = Undef
    /\ report = Undef
    /\ pc = "idle"

MergeIdle ==
    /\ intervals = <<>>
    /\ epsilonSeconds = 0
    /\ merged = <<>>
    /\ remerged = <<>>
    /\ covMerged = <<>>
    /\ covRemerged = <<>>
    /\ mergePc = "idle"

CalIdle ==
    /\ calDims = <<>>
    /\ calAlt = <<>>
    /\ calRec = ""
    /\ calAltRec = ""
    /\ calPc = "idle"

PostIdle ==
    /\ postRequest = [json |-> Undef, mock |-> FALSE]
    /\ apiKey = Undef
    /\ completion = [fetched |-> FALSE, ok |-> FALSE, payload |-> Undef]
    /\ postResponse = [status |-> 0, body |-> Undef]
    /\ postPc = "idle"

ReviewIdle ==
    /\ transcriptions = <<>>
    /\ reports = <<>>
    /\ reportLoadingByQuestionId = <<>>
    /\ reportErrorByQuestionId = <<>>
    /\ reportFetchByQuestionId = <<>>

CoverageIdle ==
    /\ coverageInput = <<>>
    /\ rawIntervals = <<>>
    /\ coverageModel = <<>>
    /\ reportCoverage = <<>>
    /\ coveragePc = "idle"

FieldsIdle ==
    /\ fieldsBody = [segments |-> <<>>, rubric |-> <<>>]
    /\ fieldsPayload = Undef
    /\ fieldsNormalized = Undef
    /\ fieldsReport = Undef
    /\ fieldsPc = "idle"

AgainIdle == againReport = Undef /\ againPc = "idle"

CacheIdle ==
    /\ cacheState = <<>>
    /\ storageItem = Null
    /\ loadedCache = <<>>
    /\ cachePc = "idle"

TranscribeIdle ==
    /\ transcribeLoadingByQuestionId = <<>>
    /\ transcribeErrorByQuestionId = <<>>
    /\ transcribeFetchByQuestionId = <<>>

RecordIdle ==
    /\ activeQuestionId = 0
    /\ isFinalizing = FALSE
    /\ mediaRecorderRef = 0
    /\ recordingQuestionIdRef = 0
    /\ autoStopTimeoutRef = 0
    /\ pendingTimers = {}
    /\ startCalls = <<>>
    /\ recorderState = <<>>
    /\ finalizeCalls = <<>>

StoreIdle ==
    /\ metadataStore = <<>>
    /\ chunkStore = <<>>
    /\ appendedChunks = <<>>

MoreIdle == FieldsIdle /\ AgainIdle /\ CacheIdle /\ TranscribeIdle /\ RecordIdle /\ StoreIdle

(***************************************************************************)
(* Spec: normalizeReportResponse(payload, requestBody) in its two passes,  *)
(* and createMockReport(requestBody).                                      *)
(***************************************************************************)
RubricKeys == <<"problemSolving", "collaboration", " problemSolving ">>

\* rubrics of at most n descriptors; isReportRequestBody accepts any non-blank key
Rubrics(n) ==
    UNION {{[i \in 1..len |-> [key |-> RubricKeys[ix[i]]]] :
               ix \in [1..len -> 1..Len(RubricKeys)]} : len \in 0..n}

\* the rubrics of the requests: every short list over RubricKeys, and one
\* rubric of three different keys
RequestRubrics ==
    Rubrics(MaxDims)
    \cup {<<[key |-> "problemSolving"], [key |-> "collaboration"], [key |-> "ownership"]>>}

AllSegments ==
    <<[id |-> "s1", start |-> 0, end |-> 100],
      [id |-> "s2", start |-> 102, end |-> 200],
      [id |-> "s3", start |-> 300, end |-> 250],
      [id |-> "s4", start |-> 400, end |-> 500],
      [id |-> "s5", start |-> 500, end |-> 600]>>

\* a transcript in which the id s1 is used twice, for segments of different
\* length
DuplicateIdSegments ==
    <<[id |-> "s1", start |-> 0, end |-> 100],
      [id |-> "s2", start |-> 102, end |-> 200],
      [id |-> "s1", start |-> 300, end |-> 500]>>

SegmentLists == {SubSeq(AllSegments, 1, Min(n, Len(AllSegments))) : n \in 0..MaxSegs}

CandidatePool ==
    <<Null,
      Obj([id |-> Str("problemSolving"), score |-> Num(500), notObserved |-> Bool(FALSE),
           evidence |-> Arr(<<Obj([segmentId |-> Str("s1"), strength |-> Str("strong"),
                                   relevance |-> Num(90)]),
                              Obj([segmentId |-> Str("zz")])>>)]),
      Obj([id |-> Str("problemSolving"), score |-> Num(200)]),
      Obj([id |-> Str("collaboration"), score |-> Str("2"),
           evidence |-> Arr(<<Null, Obj([segmentId |-> Str(" s1 "), confidence |-> Num(50)])>>)]),
      Obj([id |-> Str("collaboration"), score |-> Num(100), notObserved |-> Bool(TRUE),
           evidence |-> Arr(<<Obj([segmentId |-> Str("s2")]), Obj([segmentId |-> Str("s2")]),
                              Obj([segmentId |-> Str("s3"), strength |-> Str("weak")])>>)]),
      Obj([id |-> Str(" problemSolving "), score |-> Num(450),
           evidence |-> Arr(<<Obj([segmentId |-> Str("s2")])>>)]),
      Obj([id |-> Str("problemSolving"), notObserved |-> Str("no"), evidence |-> Str("none")])>>

ItemPool ==
    <<Obj([dimensionKey |-> Str("problemSolving"), score |-> Num(450), claim |-> Str("claim"),
           evidence |-> Arr(<<Obj([segmentId |-> Str("s1"), quote |-> Str("quote"),
                                   confidence |-> Num(90)])>>)]),
      Obj([dimensionKey |-> Str("problemSolving"), score |-> Num(40), claim |-> Str("claim"),
           evidence |-> Arr(<<>>)]),
      Obj([dimensionKey |-> Str("collaboration"), score |-> Num(300), claim |-> Str("claim"),
           evidence |-> Arr(<<Obj([segmentId |-> Str("zz"), quote |-> Str("quote"),
                                   confidence |-> Num(50)])>>)]),
      Obj([dimensionKey |-> Str(" problemSolving "), score |-> Num(400), claim |-> Str("claim"),
           evidence |-> Arr(<<>>)]),
      Obj([dimensionKey |-> Str("problemSolving"), score |-> Str("4"), claim |-> Str("claim"),
           evidence |-> Null])>>

\* the selections of at most n of the first m pool entries, in pool order
Selections(n, m) ==
    UNION {{ix \in [1..len -> 1..m] : \A i \in 1..len : \A j \in 1..len : i < j => ix[i] < ix[j]} :
              len \in 0..n}

ModernPayload(ix) ==
    Obj([overallRecommendation |-> Str("StrongHire"),
         dimensions |-> Arr([i \in DOMAIN ix |-> CandidatePool[ix[i]]])])

LegacyPayload(ix) ==
    Obj([summary |-> Str("summary"),
         overallRecommendation |-> Str("StrongHire"),
         items |-> Arr([i \in DOMAIN ix |-> ItemPool[ix[i]]])])

InitPayload ==
    \/ payload = Null
    \/ payload = Str("not json")
    \/ payload = Arr(<<>>)
    \/ payload = Obj(<<>>)
    \/ payload = Obj([overallRecommendation |-> Str("StrongHire"), dimensions |-> Str("none")])
    \/ \E ix \in Selections(MaxCands, Len(CandidatePool)) : payload = ModernPayload(ix)
    \/ \E ix \in Selections(MaxItems, Len(ItemPool)) : payload = LegacyPayload(ix)

\* a candidate that cites more segments than an evidence list keeps, one of
\* them twice and one that the transcript does not have
ManyEvidenceCandidate ==
    Obj([id |-> Str("problemSolving"), score |-> Num(400),
         evidence |-> Arr([i \in 1..7 |->
                              Obj([segmentId |-> Str(<<"s5", "s4", "s5", "zz", "s3", "s2", "s1">>[i]),
                                   relevance |-> Num(80)])])])

\* payloads that name a level of their own beside a low score, a valid one
\* and one that is no level
LeveledPayloads ==
    {Obj([overallRecommendation |-> Str("StrongHire"),
          dimensions |-> Arr(<<CandidatePool[3]>>),
          leveling |-> leveling]) :
        leveling \in {Obj([role |-> Str("Staff Engineer"), level |-> Str("senior")]),
                      Obj([level |-> Str("principal")]),
                      Str("senior")}}

InitNorm ==
    /\ \/ /\ pc = "start"
          /\ \E rubric \in RequestRubrics : \E segments \in SegmentLists :
                 requestBody = [segments |-> segments, rubric |-> rubric]
          /\ InitPayload
       \/ /\ pc = "start"
          /\ \E rubric \in Rubrics(1) : \E segments \in {AllSegments, DuplicateIdSegments} :
                 requestBody = [segments |-> segments, rubric |-> rubric]
          /\ payload \in {Obj([overallRecommendation |-> Str("StrongHire"),
                                dimensions |-> Arr(<<ManyEvidenceCandidate>>)])}
                         \cup LeveledPayloads
       \/ /\ pc = "mock"
          /\ \E rubric \in RequestRubrics : \E segments \in SegmentLists :
                 requestBody = [segments |-> segments, rubric |-> rubric]
          /\ payload = Undef
    /\ normalized = Undef
    /\ report = Undef

Init == InitNorm /\ MergeIdle /\ CalIdle /\ PostIdle /\ ReviewIdle /\ CoverageIdle /\ MoreIdle

\* first pass: const normalized = normalizeFromUnknown(payload, context)
NormalizeFromUnknown ==
    /\ pc = "start"
    /\ LET context == normalizedContextFromRequest(requestBody) IN
       IF normalizeFromUnknownThrows(payload, context)
       THEN pc' = "threw" /\ normalized' = normalized
       ELSE pc' = "normalized" /\ normalized' = normalizeFromUnknown(payload, context)
    /\ UNCHANGED <<requestBody, payload, report, mergeVars, calVars, postVars, reviewVars, coverageVars, moreVars>>

\* second pass: return normalizeModernReport(normalized, context)
NormalizeModernReport ==
    /\ pc = "normalized"
    /\ LET context == normalizedContextFromRequest(requestBody) IN
       IF normalizeModernReportThrows(normalized, context)
       THEN pc' = "threw" /\ report' = report
       ELSE pc' = "done" /\ report' = normalizeModernReport(normalized, context)
    /\ UNCHANGED <<requestBody, payload, normalized, mergeVars, calVars, postVars, reviewVars, coverageVars, moreVars>>

CreateMockReport ==
    /\ pc = "mock"
    /\ report' = createMockReport(requestBody)
    /\ pc' = "mockDone"
    /\ UNCHANGED <<requestBody, payload, normalized, mergeVars, calVars, postVars, reviewVars, coverageVars, moreVars>>

Next == NormalizeFromUnknown \/ NormalizeModernReport \/ CreateMockReport

Spec == Init /\ [][Next]_vars

(***************************************************************************)
(* SpecMerge: mergeIntervals applied to an interval list, then to its own  *)
(* output, for report.ts and for coverage.ts.                              *)
(***************************************************************************)
\* intervals with 0 <= start <= end <= MaxTime
IntervalBounds == {b \in (0..MaxTime) \X (0..MaxTime) : b[1] <= b[2]}

\* the i-th raw interval is tagged with its own segment id, as buildCoverageModel builds them
TaggedIntervals(bounds) ==
    [i \in 1..Len(bounds) |->
        [start |-> bounds[i][1], end |-> bounds[i][2], segmentIds |-> <<ToString(i)>>]]

\* [{start: 0, end: 1}, {start: 1.02, end: 2}], in hundredths of a second
ExampleBounds == <<(<<0, 100>>), (<<102, 200>>)>>

\* every short list of small intervals with every small tolerance, and the
\* example list, in either order, with the default tolerance 0.05
InitMerge ==
    /\ \/ /\ \E n \in 0..MaxIntervals : \E bounds \in [1..n -> IntervalBounds] :
                  intervals = TaggedIntervals(bounds)
          /\ epsilonSeconds \in 0..MaxEps
       \/ /\ intervals \in {TaggedIntervals(ExampleBounds),
                             TaggedIntervals(<<ExampleBounds[2], ExampleBounds[1]>>)}
          /\ epsilonSeconds = COVERAGE_EPSILON_SECONDS
    /\ merged = <<>>
    /\ remerged = <<>>
    /\ covMerged = <<>>
    /\ covRemerged = <<>>
    /\ mergePc = "input"
    /\ NormIdle
    /\ CalIdle
    /\ PostIdle
    /\ ReviewIdle
    /\ CoverageIdle
    /\ MoreIdle

MergeReport ==
    /\ mergePc = "input"
    /\ merged' = mergeIntervals(stripSegmentIds(intervals), epsilonSeconds)
    /\ mergePc' = "merged"
    /\ UNCHANGED <<intervals, epsilonSeconds, remerged, covMerged, covRemerged, normVars, calVars, postVars, reviewVars, coverageVars, moreVars>>

RemergeReport ==
    /\ mergePc = "merged"
    /\ remerged' = mergeIntervals(merged, epsilonSeconds)
    /\ mergePc' = "remerged"
    /\ UNCHANGED <<intervals, epsilonSeconds, merged, covMerged, covRemerged, normVars, calVars, postVars, reviewVars, coverageVars, moreVars>>

MergeCoverage ==
    /\ mergePc = "remerged"
    /\ covMerged' = coverageMergeIntervals(intervals, epsilonSeconds)
    /\ mergePc' = "covMerged"
    /\ UNCHANGED <<intervals, epsilonSeconds, merged, remerged, covRemerged, normVars, calVars, postVars, reviewVars, coverageVars, moreVars>>

RemergeCoverage ==
    /\ mergePc = "covMerged"
    /\ covRemerged' = coverageMergeIntervals(covMerged, epsilonSeconds)
    /\ mergePc' = "done"
    /\ UNCHANGED <<intervals, epsilonSeconds, merged, remerged, covMerged, normVars, calVars, postVars, reviewVars, coverageVars, moreVars>>

NextMerge == MergeReport \/ RemergeReport \/ MergeCoverage \/ RemergeCoverage

SpecMerge == InitMerge /\ [][NextMerge]_vars

(***************************************************************************)
(* SpecCal: deriveCalibratedRecommendation on a list of assessments and on *)
(* the same list with one observed dimension lowered or marked not         *)
(* observed.                                                               *)
(***************************************************************************)
CalKeys == {"clarity", "problemSolving", "ownership", "collaboration"}

\* score and notObserved of an assessment: the consistent combinations and
\* two that the type allows although the normalizer never builds them
CalScoreStates ==
    {[score |-> Null, notObserved |-> b] : b \in BOOLEAN}
    \cup {[score |-> Num(100 * k), notObserved |-> FALSE] : k \in 1..5}
    \cup {[score |-> Num(100 * k), notObserved |-> TRUE] : k \in {2, 5}}

MkAssessment(key, score, notObserved, cited, available) ==
    Obj([id |-> Str(key),
         score |-> score,
         notObserved |-> Bool(notObserved),
         evidence |-> Arr(<<>>),
         evidenceCoverage |-> Obj([citedSegmentCount |-> Num(100 * cited),
                                   availableSegmentCount |-> Num(100 * available)])])

\* assessments that cite `cited` of 2 available segments
CalAssessments(cited) ==
    {MkAssessment(key, st.score, st.notObserved, cited, 2) : key \in CalKeys, st \in CalScoreStates}

\* observed assessments of the core dimensions
ObservedCoreAssessments(cited) ==
    {MkAssessment(key, Num(100 * k), FALSE, cited, 2) : key \in CORE_DIMENSION_KEYS, k \in 1..5}

\* every short list of assessments, and every list of three observed core ones
InitCal ==
    /\ \E cited \in 0..1 :
           \/ \E n \in 0..MaxCalDims : calDims \in [1..n -> CalAssessments(cited)]
           \/ calDims \in [1..3 -> ObservedCoreAssessments(cited)]
    /\ calAlt = <<>>
    /\ calRec = ""
    /\ calAltRec = ""
    /\ calPc = "input"
    /\ NormIdle
    /\ MergeIdle
    /\ PostIdle
    /\ ReviewIdle
    /\ CoverageIdle
    /\ MoreIdle

Calibrate ==
    /\ calPc = "input"
    /\ calRec' = deriveCalibratedRecommendation(calDims).recommendation
    /\ calPc' = "calibrated"
    /\ UNCHANGED <<calDims, calAlt, calAltRec, normVars, mergeVars, postVars, reviewVars, coverageVars, moreVars>>

\* one observed dimension's score replaced by a strictly lower score in 1..5
LowerScore ==
    /\ calPc = "calibrated"
    /\ \E i \in 1..Len(calDims) : \E k \in 1..5 :
           /\ isObserved(calDims[i])
           /\ 100 * k < calDims[i].v.score.v
           /\ calAlt' = [calDims EXCEPT ![i].v.score = Num(100 * k)]
    /\ calAltRec' = deriveCalibratedRecommendation(calAlt').recommendation
    /\ calPc' = "lowered"
    /\ UNCHANGED <<calDims, calRec, normVars, mergeVars, postVars, reviewVars, coverageVars, moreVars>>

\* one observed dimension changed to notObserved = true, score = null
MarkNotObserved ==
    /\ calPc = "calibrated"
    /\ \E i \in 1..Len(calDims) :
           /\ isObserved(calDims[i])
           /\ calAlt' = [calDims EXCEPT ![i].v.score = Null, ![i].v.notObserved = Bool(TRUE)]
    /\ calAltRec' = deriveCalibratedRecommendation(calAlt').recommendation
    /\ calPc' = "flipped"
    /\ UNCHANGED <<calDims, calRec, normVars, mergeVars, postVars, reviewVars, coverageVars, moreVars>>

NextCal == Calibrate \/ LowerScore \/ MarkNotObserved

SpecCal == InitCal /\ [][NextCal]_vars

(***************************************************************************)
(* SpecPost: POST /api/report (api/report/route.ts).  The request body is  *)
(* an untyped JSON value, undefined when request.json() rejects; the       *)
(* completion is what the fetch of the chat completions URL resolves to.   *)
(***************************************************************************)
isValidSegment(segment) ==
    /\ isRecord(segment)
    /\ isNonEmptyString(Get(segment, "id"))
    /\ Get(segment, "start").t = "number"
    /\ Get(segment, "end").t = "number"
    /\ Get(segment, "text").t = "string"

isValidDimension(dimension) ==
    /\ isRecord(dimension)
    /\ isNonEmptyString(Get(dimension, "key"))
    /\ isNonEmptyString(Get(dimension, "label"))
    /\ isNonEmptyString(Get(dimension, "description"))

isReportRequestBody(value) ==
    /\ isRecord(value)
    /\ isNonEmptyString(Get(value, "questionId"))
    /\ isNonEmptyString(Get(value, "questionText"))
    /\ isRecord(Get(value, "rubric"))
    /\ Get(Get(value, "rubric"), "dimensions").t = "array"
    /\ Get(value, "segments").t = "array"
    /\ \A i \in 1..Len(Get(value, "segments").v) : isValidSegment(Get(value, "segments").v[i])
    /\ \A i \in 1..Len(Get(Get(value, "rubric"), "dimensions").v) :
           isValidDimension(Get(Get(value, "rubric"), "dimensions").v[i])

\* the ReportRequestBody a JSON value that passed isReportRequestBody is read as
requestBodyOf(value) ==
    LET segments == Get(value, "segments").v
        dimensions == Get(Get(value, "rubric"), "dimensions").v
    IN [segments |-> [i \in 1..Len(segments) |->
                         [id |-> Get(segments[i], "id").v,
                          start |-> Get(segments[i], "start").v,
                          end |-> Get(segments[i], "end").v]],
        rubric |-> [i \in 1..Len(dimensions) |-> [key |-> Get(dimensions[i], "key").v]]]

\* JSON.parse over the texts of the model: [ok, value]; ok is false for a SyntaxError
JSONParse(text) ==
    CASE text = "null" -> [ok |-> TRUE, value |-> Null]
      [] text = "42" -> [ok |-> TRUE, value |-> Num(4200)]
      [] text = "{}" -> [ok |-> TRUE, value |-> Obj(<<>>)]
      [] text = "{\"dimensions\":[{\"id\":\"problemSolving\",\"score\":5}]}" ->
             [ok |-> TRUE,
              value |-> Obj([dimensions |->
                                Arr(<<Obj([id |-> Str("problemSolving"), score |-> Num(500)])>>)])]
      [] OTHER -> [ok |-> FALSE, value |-> Undef]

RECURSIVE joinedTextParts(_, _)
\* textParts.join("") over the first k parts of a content array
joinedTextParts(content, k) ==
    IF k = 0 THEN ""
    ELSE IF isRecord(content[k])
            /\ Get(content[k], "type") = Str("text")
            /\ Get(content[k], "text").t = "string"
         THEN joinedTextParts(content, k - 1) \o Get(content[k], "text").v
         ELSE joinedTextParts(content, k - 1)

\* the content string of the first choice, or null
extractCompletionContent(responsePayload) ==
    IF ~isRecord(responsePayload) THEN Null
    ELSE IF Get(responsePayload, "choices").t # "array" THEN Null
    ELSE IF Len(Get(responsePayload, "choices").v) = 0 THEN Null
    ELSE IF ~isRecord(Get(responsePayload, "choices").v[1]) THEN Null
    ELSE IF ~isRecord(Get(Get(responsePayload, "choices").v[1], "message")) THEN Null
    ELSE LET content == Get(Get(Get(responsePayload, "choices").v[1], "message"), "content") IN
         IF content.t = "string" THEN content
         ELSE IF content.t = "array"
              THEN IF Trim(joinedTextParts(content.v, Len(content.v))) # ""
                   THEN Str(Trim(joinedTextParts(content.v, Len(content.v))))
                   ELSE Null
              ELSE Null

\* an exception of normalizeReportResponse(value, body)
normalizeReportResponseThrows(value, body) ==
    \/ normalizeFromUnknownThrows(value, normalizedContextFromRequest(body))
    \/ normalizeModernReportThrows(
           normalizeFromUnknown(value, normalizedContextFromRequest(body)),
           normalizedContextFromRequest(body))

Thrown(message) == [threw |-> TRUE, message |-> message, report |-> Undef]

\* generateReportWithOpenAI after its fetch: the report it returns or the Error
\* it throws.  A completion that is not fetched is a rejected fetch; a payload
\* that is undefined is a body response.json() rejects.
generateReportWithOpenAI(body, reply) ==
    IF ~reply.fetched THEN Thrown("fetch failed")
    ELSE IF ~reply.ok THEN Thrown("OpenAI report generation failed")
    ELSE IF reply.payload.t = "undefined" THEN Thrown("Unexpected token")
    ELSE IF extractCompletionContent(reply.payload).t = "null"
            \/ extractCompletionContent(reply.payload).v = ""
         THEN Thrown("OpenAI response did not include JSON content.")
    ELSE IF ~JSONParse(extractCompletionContent(reply.payload).v).ok
         THEN Thrown("OpenAI returned invalid JSON for report generation.")
    ELSE IF normalizeReportResponseThrows(
                JSONParse(extractCompletionContent(reply.payload).v).value, body)
         THEN Thrown("TypeError")
    ELSE [threw |-> FALSE, message |-> "",
          report |-> normalizeReportResponse(
                         JSONParse(extractCompletionContent(reply.payload).v).value, body)]

ErrorResponse(status, message) == [status |-> status, body |-> Obj([error |-> Str(message)])]

MaxPostDims == 2     \* longest rubric of a request to POST /api/report

\* the JSON body of a request with the given rubric and segments
PostJson(rubric, segments) ==
    Obj([questionId |-> Str("1"),
         questionText |-> Str("question"),
         rubric |-> Obj([dimensions |->
                            Arr([i \in 1..Len(rubric) |->
                                    Obj([key |-> Str(rubric[i].key), label |-> Str("label"),
                                         description |-> Str("description")])])]),
         segments |-> Arr([i \in 1..Len(segments) |->
                              Obj([id |-> Str(segments[i].id), start |-> Num(segments[i].start),
                                   end |-> Num(segments[i].end), text |-> Str("text")])])])

\* request bodies: undefined stands for a body that is no JSON
PostBodies ==
    {Undef, Null, Obj([questionId |-> Str("1")]),
     Obj([questionId |-> Str("1"), questionText |-> Str("question"),
          rubric |-> Obj([dimensions |-> Arr(<<Obj([key |-> Str("  ")])>>)]),
          segments |-> Arr(<<>>)])}
    \cup {PostJson(rubric, segments) : rubric \in Rubrics(MaxPostDims), segments \in SegmentLists}

ChatCompletion(content) ==
    Obj([choices |-> Arr(<<Obj([message |-> Obj([content |-> content])])>>)])

CompletionTexts ==
    {"not json", "", "null", "42", "{}",
     "{\"dimensions\":[{\"id\":\"problemSolving\",\"score\":5}]}"}

Completions ==
    {[fetched |-> FALSE, ok |-> FALSE, payload |-> Undef],
     [fetched |-> TRUE, ok |-> FALSE, payload |-> Obj([error |-> Str("rate limit")])],
     [fetched |-> TRUE, ok |-> TRUE, payload |-> Undef],
     [fetched |-> TRUE, ok |-> TRUE, payload |-> Null],
     [fetched |-> TRUE, ok |-> TRUE, payload |-> Obj([choices |-> Arr(<<>>)])],
     [fetched |-> TRUE, ok |-> TRUE,
      payload |-> ChatCompletion(Arr(<<Obj([type |-> Str("text"), text |-> Str("{")]), Null,
                                       Obj([type |-> Str("image")]),
                                       Obj([type |-> Str("text"), text |-> Str("}")])>>))],
     [fetched |-> TRUE, ok |-> TRUE,
      payload |-> ChatCompletion(Arr(<<Obj([type |-> Str("text"), text |-> Str("  ")])>>))]}
    \cup {[fetched |-> TRUE, ok |-> TRUE, payload |-> ChatCompletion(Str(text))] :
             text \in CompletionTexts}

InitPost ==
    /\ \E json \in PostBodies : \E mock \in BOOLEAN : postRequest = [json |-> json, mock |-> mock]
    /\ apiKey \in {Undef, Str(""), Str("sk-test")}
    /\ completion \in Completions
    /\ postResponse = [status |-> 0, body |-> Undef]
    /\ postPc = "received"
    /\ NormIdle
    /\ MergeIdle
    /\ CalIdle
    /\ ReviewIdle
    /\ CoverageIdle
    /\ MoreIdle

\* POST up to its response or to the await of generateReportWithOpenAI
PostHandle ==
    /\ postPc = "received"
    /\ IF postRequest.json.t = "undefined"
       THEN postResponse' = ErrorResponse(400, "Invalid JSON body.") /\ postPc' = "responded"
       ELSE IF ~isReportRequestBody(postRequest.json)
       THEN /\ postResponse' = ErrorResponse(400, "Invalid request body for /api/report.")
            /\ postPc' = "responded"
       ELSE IF Len(requestBodyOf(postRequest.json).segments) = 0
       THEN /\ postResponse' =
                   ErrorResponse(400, "segments must contain at least one transcript segment.")
            /\ postPc' = "responded"
       ELSE IF Len(requestBodyOf(postRequest.json).rubric) = 0
       THEN /\ postResponse' =
                   ErrorResponse(400, "rubric.dimensions must contain at least one dimension.")
            /\ postPc' = "responded"
       ELSE IF postRequest.mock \/ apiKey.t = "undefined" \/ apiKey.v = ""
       THEN /\ postResponse' = [status |-> 200,
                                body |-> createMockReport(requestBodyOf(postRequest.json))]
            /\ postPc' = "responded"
       ELSE postResponse' = postResponse /\ postPc' = "awaiting"
    /\ UNCHANGED <<postRequest, apiKey, completion, normVars, mergeVars, calVars, reviewVars, coverageVars, moreVars>>

\* the rest of POST once the fetch of generateReportWithOpenAI has settled
PostComplete ==
    /\ postPc = "awaiting"
    /\ \E outcome \in {generateReportWithOpenAI(requestBodyOf(postRequest.json), completion)} :
           postResponse' = IF outcome.threw THEN ErrorResponse(500, outcome.message)
                           ELSE [status |-> 200, body |-> outcome.report]
    /\ postPc' = "responded"
    /\ UNCHANGED <<postRequest, apiKey, completion, normVars, mergeVars, calVars, reviewVars, coverageVars, moreVars>>

NextPost == PostHandle \/ PostComplete

SpecPost == InitPost /\ [][NextPost]_vars

(***************************************************************************)
(* Report body guards (report.ts 3101-3305) and toModernReportResponse     *)
(* (3307-3315).                                                            *)
(***************************************************************************)
isStringArray(value) ==
    value.t = "array" /\ \A i \in 1..Len(value.v) : value.v[i].t = "string"

isOptionalStringArray(value) == value.t = "undefined" \/ isStringArray(value)

\* one element of value.evidence.every(...) in isModernDimensionAssessment
isModernEvidenceEntry(entry) ==
    /\ isRecord(entry)
    /\ \/ Get(entry, "strength").t = "undefined"
       \/ Get(entry, "strength") \in {Str("weak"), Str("medium"), Str("strong")}
    /\ Get(entry, "relevance").t \in {"undefined", "number"}
    /\ isNonEmptyString(Get(entry, "segmentId"))
    /\ Get(entry, "quote").t = "string"
    /\ Get(entry, "interpretation").t \in {"undefined", "string"}

isModernDimensionAssessment(value) ==
    /\ isRecord(value)
    /\ \/ Get(value, "score").t = "null"
       \/ Get(value, "score").t = "number" /\ Get(value, "score").v \in 100..500
    /\ isNonEmptyString(Get(value, "id"))
    /\ isNonEmptyString(Get(value, "label"))
    /\ Get(value, "notObserved").t = "boolean"
    /\ Get(value, "confidence").t = "number"
    /\ isRecord(Get(value, "anchors"))
    /\ Get(value, "missingSignals").t = "array"
    /\ Get(value, "evidence").t = "array"
    /\ isRecord(Get(value, "evidenceCoverage"))
    /\ \A level \in {"1", "2", "3", "4", "5"} : Get(Get(value, "anchors"), level).t = "string"
    /\ Get(Get(value, "evidenceCoverage"), "citedSegmentCount").t = "number"
    /\ Get(Get(value, "evidenceCoverage"), "availableSegmentCount").t = "number"
    /\ \A field \in {"observedSignals", "concerns", "counterSignals", "observations", "probes",
                     "missingSignals"} : isOptionalStringArray(Get(value, field))
    /\ \A k \in 1..Len(Get(value, "evidence").v) :
           isModernEvidenceEntry(Get(value, "evidence").v[k])

isCoverageMap(value) ==
    /\ isRecord(value)
    /\ isRecord(Get(value, "byDimension"))
    /\ isRecord(Get(value, "bySegment"))
    /\ \A d \in DOMAIN Get(value, "byDimension").v :
           LET entry == Get(value, "byDimension").v[d] IN
           /\ isRecord(entry)
           /\ isStringArray(Get(entry, "segmentIds"))
           /\ Get(entry, "coveragePct").t = "number"
    /\ \A g \in DOMAIN Get(value, "bySegment").v :
           LET entry == Get(value, "bySegment").v[g] IN
           isRecord(entry) /\ isStringArray(Get(entry, "dimensions"))

isModernReportResponseBody(value) ==
    /\ isRecord(value)
    /\ Get(value, "overallSummary").t = "string"
    /\ Get(value, "overallRecommendation").t = "string"
    /\ Get(value, "overallRecommendation").v \in RECOMMENDATIONS
    /\ isStringArray(Get(value, "risks"))
    /\ isStringArray(Get(value, "followUps"))
    /\ Get(value, "dimensions").t = "array"
    /\ \A i \in 1..Len(Get(value, "dimensions").v) :
           isModernDimensionAssessment(Get(value, "dimensions").v[i])
    /\ \A field \in {"decisionRationale", "calibrationNotes", "keyStrengths", "keyRisks",
                     "mustFixToHire"} : isOptionalStringArray(Get(value, field))
    /\ Get(value, "coverageMap").t = "undefined" \/ isCoverageMap(Get(value, "coverageMap"))
    /\ \/ Get(value, "leveling").t = "undefined"
       \/ /\ isRecord(Get(value, "leveling"))
          /\ isNonEmptyString(Get(Get(value, "leveling"), "role"))
          /\ toReportLevel(Get(Get(value, "leveling"), "level")).t # "null"

isReportResponseBody(value) ==
    isLegacyReportResponseBody(value) \/ isModernReportResponseBody(value)

toModernReportResponse(reportBody, options) ==
    IF isLegacyReportResponseBody(reportBody) THEN fromLegacyReport(reportBody, options)
    ELSE normalizeModernReport(reportBody, normalizeOptions(options))

toModernReportResponseThrows(reportBody, options) ==
    IF isLegacyReportResponseBody(reportBody)
    THEN \/ fromLegacyReportThrows(reportBody, options)
         \/ normalizeModernReportThrows(modernLikeOf(reportBody, normalizeOptions(options)),
                                        normalizeOptions(options))
    ELSE normalizeModernReportThrows(reportBody, normalizeOptions(options))

(***************************************************************************)
(* SpecReview: generateReport of the review page (review/page.tsx          *)
(* 250-321) for the questions of the page.  A fetch is "none", "pending"   *)
(* or "settled" with the reply [fetched, ok, payload]; a reply that is not *)
(* fetched is a rejected fetch, and a payload that is undefined is a body  *)
(* response.json() rejects.                                                *)
(***************************************************************************)
DEFAULT_RUBRIC_DIMENSIONS ==
    <<[key |-> "clarity"], [key |-> "problemSolving"], [key |-> "ownership"],
      [key |-> "collaboration"]>>

Questions == {1, 2}

\* no fetch in flight; a fetch of generateReport carries the transcription the
\* call was given
NoFetch == [state |-> "none", reply |-> Undef, transcription |-> Undef]

\* normalizedReport.dimensions.some(...) of generateReport
hasInvalidEvidence(normalizedReport, segments) ==
    \E i \in 1..Len(normalizedReport.v.dimensions.v) :
        LET dimension == normalizedReport.v.dimensions.v[i] IN
        IF Len(dimension.v.evidence.v) = 0 THEN ~dimension.v.notObserved.v
        ELSE \E k \in 1..Len(dimension.v.evidence.v) :
                 ~segmentByIdHas(segments, dimension.v.evidence.v[k].v.segmentId.v)

\* variant of checkedReport that stores the normalized report unchecked
uncheckedReport(normalizedReport, segments) ==
    [threw |-> FALSE, message |-> "", report |-> normalizedReport]

\* the post-condition check of generateReport on the normalized report
checkedReport(normalizedReport, segments) ==
    IF hasInvalidEvidence(normalizedReport, segments)
    THEN Thrown("Report references missing transcript segments.")
    ELSE [threw |-> FALSE, message |-> "", report |-> normalizedReport]

reviewOptions(segments) ==
    [dimensions |-> DEFAULT_RUBRIC_DIMENSIONS,
     availableSegmentCount |-> Len(segments),
     segments |-> segments]

\* the try block of generateReport after its fetch has settled
generateReportOutcome(segments, reply) ==
    IF ~reply.fetched THEN Thrown("Failed to fetch")
    ELSE IF reply.payload.t = "undefined" THEN Thrown("Unexpected token")
    ELSE IF ~reply.ok
         THEN Thrown(IF isRecord(reply.payload) /\ Get(reply.payload, "error").t = "string"
                     THEN Get(reply.payload, "error").v
                     ELSE "Report generation failed.")
    ELSE IF ~isReportResponseBody(reply.payload)
         THEN Thrown("Unexpected report response format.")
    ELSE IF toModernReportResponseThrows(reply.payload, reviewOptions(segments))
         THEN Thrown("TypeError")
    ELSE checkedReport(toModernReportResponse(reply.payload, reviewOptions(segments)), segments)

ReviewDimension(id, score, notObserved, evidence) ==
    Obj([id |-> Str(id), label |-> Str("label"), score |-> score,
         notObserved |-> Bool(notObserved), confidence |-> Num(8000),
         anchors |-> Obj([level \in {"1", "2", "3", "4", "5"} |-> Str("anchor")]),
         missingSignals |-> Arr(<<>>), evidence |-> Arr(evidence),
         evidenceCoverage |-> Obj([citedSegmentCount |-> Num(100),
                                   availableSegmentCount |-> Num(100)])])

ReviewReplies ==
    {[fetched |-> FALSE, ok |-> FALSE, payload |-> Undef],
     [fetched |-> TRUE, ok |-> FALSE,
      payload |-> Obj([error |-> Str("segments must contain at least one transcript segment.")])],
     [fetched |-> TRUE, ok |-> TRUE, payload |-> Obj(<<>>)],
     [fetched |-> TRUE, ok |-> TRUE, payload |-> LegacyPayload(<<>>)],
     [fetched |-> TRUE, ok |-> TRUE, payload |-> LegacyPayload(<<1>>)],
     [fetched |-> TRUE, ok |-> TRUE,
      payload |-> Obj([overallSummary |-> Str("summary"),
                       overallRecommendation |-> Str("Hire"),
                       risks |-> Arr(<<>>), followUps |-> Arr(<<>>),
                       dimensions |->
                           Arr(<<ReviewDimension("clarity", Num(400), FALSE,
                                     <<Obj([segmentId |-> Str("zz"), quote |-> Str("quote")])>>),
                                 ReviewDimension("collaboration", Null, TRUE, <<>>)>>)])]}

\* a transcription is undefined or the segments of the question's transcript
InitReview ==
    /\ transcriptions \in [Questions -> {Undef} \cup {Arr(segments) : segments \in SegmentLists}]
    /\ reports = [q \in Questions |-> Undef]
    /\ reportLoadingByQuestionId = [q \in Questions |-> FALSE]
    /\ reportErrorByQuestionId = [q \in Questions |-> ""]
    /\ reportFetchByQuestionId = [q \in Questions |-> NoFetch]
    /\ NormIdle
    /\ MergeIdle
    /\ CalIdle
    /\ PostIdle
    /\ CoverageIdle
    /\ MoreIdle

\* the Generate Report button, disabled without a transcription or while
\* loading: generateReport up to its await of fetch
GenerateReport(q) ==
    /\ transcriptions[q].t # "undefined"
    /\ ~reportLoadingByQuestionId[q]
    /\ reportLoadingByQuestionId' = [reportLoadingByQuestionId EXCEPT ![q] = TRUE]
    /\ reportErrorByQuestionId' = [reportErrorByQuestionId EXCEPT ![q] = ""]
    /\ reportFetchByQuestionId' =
           [reportFetchByQuestionId EXCEPT
               ![q] = [state |-> "pending", reply |-> Undef, transcription |-> transcriptions[q]]]
    /\ UNCHANGED <<transcriptions, reports, normVars, mergeVars, calVars, postVars, coverageVars, moreVars>>

\* the fetch of /api/report settles
ReportFetchSettles(q) ==
    /\ reportFetchByQuestionId[q].state = "pending"
    /\ \E reply \in ReviewReplies :
           reportFetchByQuestionId' =
               [reportFetchByQuestionId EXCEPT
                   ![q] = [state |-> "settled", reply |-> reply,
                           transcription |-> reportFetchByQuestionId[q].transcription]]
    /\ UNCHANGED <<transcriptions, reports, reportLoadingByQuestionId, reportErrorByQuestionId,
                   normVars, mergeVars, calVars, postVars, coverageVars, moreVars>>

\* generateReport after the await: try, catch and finally
FinishGenerateReport(q) ==
    /\ reportFetchByQuestionId[q].state = "settled"
    /\ \E outcome \in {generateReportOutcome(reportFetchByQuestionId[q].transcription.v,
                                             reportFetchByQuestionId[q].reply)} :
           /\ reports' = IF outcome.threw THEN reports
                         ELSE [reports EXCEPT ![q] = outcome.report]
           /\ reportErrorByQuestionId' =
                  IF outcome.threw
                  THEN [reportErrorByQuestionId EXCEPT ![q] = outcome.message]
                  ELSE reportErrorByQuestionId
    /\ reportLoadingByQuestionId' = [reportLoadingByQuestionId EXCEPT ![q] = FALSE]
    /\ reportFetchByQuestionId' = [reportFetchByQuestionId EXCEPT ![q] = NoFetch]
    /\ UNCHANGED <<transcriptions, normVars, mergeVars, calVars, postVars, coverageVars, moreVars>>

NextReview ==
    \E q \in Questions : GenerateReport(q) \/ ReportFetchSettles(q) \/ FinishGenerateReport(q)

SpecReview == InitReview /\ [][NextReview]_vars

(***************************************************************************)
(* SpecCoverage: buildCoverageModel (coverage.ts) on the segments of a     *)
(* transcription and the dimensions of a report, and createCoverageMap     *)
(* (report.ts) on the same segments as the report route normalizes them.   *)
(* Times are whole hundredths of a second.  A raw interval is an object:   *)
(* the merge is modelled with the identity of each object it holds, so     *)
(* that a write through `previous` reaches an input when they are one      *)
(* object.                                                                 *)
(***************************************************************************)
\* coverage.ts deriveDurationSeconds; every segment.end of the model is finite
coverageDeriveDurationSeconds(segments, preferredDurationSeconds) ==
    IF preferredDurationSeconds.t = "number" /\ preferredDurationSeconds.v > 0
    THEN preferredDurationSeconds.v
    ELSE IF maxSegmentEnd(segments, Len(segments)) > 0
         THEN maxSegmentEnd(segments, Len(segments))
         ELSE 100

\* input.report.dimensions, filtered when an active dimension is given
activeDimensions(dimensions, activeDimensionId) ==
    IF activeDimensionId.t = "string" /\ activeDimensionId.v # ""
    THEN SelectSeq(dimensions, LAMBDA dimension : dimension.v.id.v = activeDimensionId.v)
    ELSE dimensions

RECURSIVE citedSegmentIdSet(_, _, _)
\* the Set after the first k dimensions, in insertion order
citedSegmentIdSet(dimensions, k, segments) ==
    IF k = 0 THEN <<>>
    ELSE LET ids == evidenceSegmentIds(dimensions[k])
             known == knownOnly(ids, Len(ids), segments)
         IN appendNew(citedSegmentIdSet(dimensions, k - 1, segments), known, Len(known))

rawIntervalOf(segment, durationSeconds, start) ==
    [start |-> start,
     end |-> clamp(Max(segment.end, start), 0, durationSeconds),
     segmentIds |-> <<segment.id>>]

rawIntervalsOf(cited, segments, durationSeconds) ==
    [i \in 1..Len(cited) |->
        rawIntervalOf(segmentByIdGet(segments, cited[i]), durationSeconds,
                      clamp(segmentByIdGet(segments, cited[i]).start, 0, durationSeconds))]

\* the i-th interval with its identity: object i
withIdentity(list) ==
    [i \in 1..Len(list) |->
        [start |-> list[i].start, end |-> list[i].end,
         segmentIds |-> list[i].segmentIds, object |-> i]]

withoutIdentity(list) ==
    [i \in 1..Len(list) |->
        [start |-> list[i].start, end |-> list[i].end, segmentIds |-> list[i].segmentIds]]

\* variant of pushedInterval that pushes the input object itself
pushedSameObject(interval, object) ==
    [start |-> interval.start, end |-> interval.end,
     segmentIds |-> interval.segmentIds, object |-> object]

\* merged.push({start, end, segmentIds: [...]}): a new object (object 0)
pushedInterval(interval, object) ==
    [start |-> interval.start, end |-> interval.end,
     segmentIds |-> interval.segmentIds, object |-> 0]

\* previous.end = ...; previous.segmentIds = ...: the last merged interval is
\* written, and with it the input that is the same object
writePrevious(state, end, segmentIds) ==
    LET n == Len(state.merged)
        previous == state.merged[n]
    IN [merged |-> [state.merged EXCEPT ![n].end = end, ![n].segmentIds = segmentIds],
        inputs |-> IF previous.object = 0 THEN state.inputs
                   ELSE [state.inputs EXCEPT ![previous.object].end = end,
                                             ![previous.object].segmentIds = segmentIds]]

\* one turn of the for loop of coverage.ts mergeIntervals; `interval` is the
\* input object as it is at this turn
sweepObject(state, interval, object, eps) ==
    IF state.merged = <<>>
    THEN [state EXCEPT !.merged = <<pushedInterval(interval, object)>>]
    ELSE IF interval.start <= state.merged[Len(state.merged)].end + eps
         THEN writePrevious(state,
                            Max(state.merged[Len(state.merged)].end, interval.end),
                            uniqueInOrder(state.merged[Len(state.merged)].segmentIds
                                          \o interval.segmentIds))
         ELSE [state EXCEPT !.merged = Append(state.merged, pushedInterval(interval, object))]

sweepFrom(state, object, eps) == sweepObject(state, state.inputs[object], object, eps)

RECURSIVE sweepObjects(_, _, _, _)
\* the for loop over the first k intervals of the sorted copy
sweepObjects(list, sorted, k, eps) ==
    IF k = 0 THEN [merged |-> <<>>, inputs |-> list]
    ELSE sweepFrom(sweepObjects(list, sorted, k - 1, eps), sorted[k].object, eps)

\* coverage.ts mergeIntervals with its effect on the objects of the argument:
\* [merged, inputs]
mergeIntervalsOnObjects(list, eps) ==
    IF Len(list) = 0 THEN [merged |-> <<>>, inputs |-> list]
    ELSE sweepObjects(list, sortByStart(withIdentity(list), Len(list)), Len(list), eps)

\* clamp(coveredSeconds / durationSeconds * 100, 0, 100) as the fraction num / den
coveragePercentOf(coveredSeconds, durationSeconds) ==
    IF coveredSeconds <= 0 THEN [num |-> 0, den |-> 1]
    ELSE IF coveredSeconds >= durationSeconds THEN [num |-> 100, den |-> 1]
    ELSE [num |-> 100 * coveredSeconds, den |-> durationSeconds]

coverageModelOf(input, durationSeconds, cited, mergedIntervals) ==
    [durationSeconds |-> durationSeconds,
     intervals |-> mergedIntervals,
     coveragePercent |-> coveragePercentOf(coveredSecondsOf(mergedIntervals, Len(mergedIntervals)),
                                           durationSeconds),
     citedSegmentCount |-> Len(cited),
     totalSegmentCount |-> Len(input.segments)]

coverageOutcome(input, durationSeconds, cited, raw, effect) ==
    [rawIntervals |-> [built |-> raw, afterMerge |-> effect.inputs],
     model |-> coverageModelOf(input, durationSeconds, cited, withoutIdentity(effect.merged))]

coverageFromCited(input, durationSeconds, eps, cited) ==
    coverageOutcome(input, durationSeconds, cited,
                    rawIntervalsOf(cited, input.segments, durationSeconds),
                    mergeIntervalsOnObjects(rawIntervalsOf(cited, input.segments, durationSeconds),
                                            eps))

\* buildCoverageModel(input): the model it returns and rawIntervals as built
\* and as the merge leaves it
buildCoverageModel(input) ==
    coverageFromCited(input,
                      coverageDeriveDurationSeconds(input.segments, input.durationSeconds),
                      IF input.epsilonSeconds.t \in {"undefined", "null"}
                      THEN 5 ELSE input.epsilonSeconds.v,
                      citedSegmentIdSet(activeDimensions(input.dimensions, input.activeDimensionId),
                                        Len(activeDimensions(input.dimensions, input.activeDimensionId)),
                                        input.segments))

MaxCovSegs == 2      \* most segments of a transcription in SpecCoverage

CoverageTimes == {0, 50, 52, 120}

\* start and end of a segment as transcribed: start <= end, and one segment that ends before it starts
CoverageSpans ==
    {span \in CoverageTimes \X CoverageTimes : span[1] <= span[2]} \cup {<<52, 0>>}

CoverageSegments(spans) ==
    [i \in 1..Len(spans) |-> [id |-> "s" \o ToString(i), start |-> spans[i][1], end |-> spans[i][2]]]

CoverageDimension(id, segmentIds) ==
    Obj([id |-> Str(id),
         evidence |-> Arr([i \in 1..Len(segmentIds) |-> Obj([segmentId |-> Str(segmentIds[i])])])])

\* the dimensions of the report on the page
CoverageReports ==
    {<<CoverageDimension("clarity", <<"s1", "s2">>),
       CoverageDimension("ownership", <<"s3", "zz", "s1">>)>>,
     <<CoverageDimension("clarity", <<>>), CoverageDimension("ownership", <<"s2">>)>>,
     <<CoverageDimension("clarity", <<"s3", "s2", "s1">>)>>}

\* every short list of segments, and lists of three segments of which two can
\* touch
CoverageSpanLists ==
    UNION {[1..n -> CoverageSpans] : n \in 0..MaxCovSegs}
    \cup [1..3 -> {<<0, 0>>, <<0, 50>>, <<120, 120>>}]

InitCoverage ==
    /\ \E spans \in CoverageSpanLists :
       \E dimensions \in CoverageReports :
       \E activeDimensionId \in {Null, Str("ownership")} :
       \E durationSeconds \in {Undef, Num(0), Num(40), Num(300)} :
       \E eps \in {Undef, Num(0)} :
           coverageInput = [segments |-> CoverageSegments(spans),
                            dimensions |-> dimensions,
                            activeDimensionId |-> activeDimensionId,
                            durationSeconds |-> durationSeconds,
                            epsilonSeconds |-> eps]
    /\ rawIntervals = <<>>
    /\ coverageModel = <<>>
    /\ reportCoverage = <<>>
    /\ coveragePc = "input"
    /\ NormIdle
    /\ MergeIdle
    /\ CalIdle
    /\ PostIdle
    /\ ReviewIdle
    /\ MoreIdle

\* the review page renders the coverage of a question
BuildCoverageModel ==
    /\ coveragePc = "input"
    /\ \E outcome \in {buildCoverageModel(coverageInput)} :
           /\ rawIntervals' = outcome.rawIntervals
           /\ coverageModel' = outcome.model
    /\ coveragePc' = "model"
    /\ UNCHANGED <<coverageInput, reportCoverage, normVars, mergeVars, calVars, postVars, reviewVars, moreVars>>

\* the report route builds the coverage map of the same dimensions over the
\* segments of its normalized context
CreateCoverageMap ==
    /\ coveragePc = "model"
    /\ \E segments \in {normalizedContextFromRequest([rubric |-> <<>>,
                                                      segments |-> coverageInput.segments]).segments} :
           reportCoverage' = [durationSeconds |-> deriveDurationSeconds(segments),
                              coverageMap |-> createCoverageMap(coverageInput.dimensions, segments)]
    /\ coveragePc' = "done"
    /\ UNCHANGED <<coverageInput, rawIntervals, coverageModel, normVars, mergeVars, calVars, postVars, reviewVars, moreVars>>

NextCoverage == BuildCoverageModel \/ CreateCoverageMap

SpecCoverage == InitCoverage /\ [][NextCoverage]_vars

(***************************************************************************)
(* SpecFields: the string lists of normalizeReportResponse (report.ts      *)
(* 1750-1764, 2045-2061, 2316-2418, 2568-2647), of the legacy adapter      *)
(* (2709-2776) and of the mock generator (2783-3017).  A string[] is a     *)
(* sequence of strings; inside an untyped value it is Arr of Str.  The     *)
(* descriptors of this specification carry a label beside the key.         *)
(***************************************************************************)
includes(result, entry) == \E i \in 1..Len(result) : result[i] = entry

\* the entries that pass isNonEmptyString, trimmed
trimmedStrings(entries) ==
    LET kept == SelectSeq(entries, isNonEmptyString) IN
    [i \in 1..Len(kept) |-> Trim(kept[i].v)]

toStringArray(value, fallback) ==
    IF value.t # "array" THEN fallback ELSE uniqueInOrder(trimmedStrings(value.v))

stringsOf(list) == Arr([i \in 1..Len(list) |-> Str(list[i])])

RECURSIVE ensureMinLoop(_, _, _, _)
\* the for loop of ensureMinItems over the first k fallback entries; after the
\* break the result no longer changes
ensureMinLoop(entries, fallbackEntries, k, minItems) ==
    IF k = 0 THEN entries
    ELSE LET result == ensureMinLoop(entries, fallbackEntries, k - 1, minItems) IN
         IF Len(result) >= minItems \/ includes(result, fallbackEntries[k])
         THEN result
         ELSE Append(result, fallbackEntries[k])

\* variant of sliceTo that cuts nothing
sliceNothing(result, maxItems) == result

\* result.slice(0, maxItems)
sliceTo(result, maxItems) == SubSeq(result, 1, Min(Len(result), maxItems))

ensureMinItems(entries, fallbackEntries, minItems, maxItems) ==
    sliceTo(ensureMinLoop(entries, fallbackEntries, Len(fallbackEntries), minItems), maxItems)

\* `${score ?? 3}`
levelText(score) == ToString(IF score.t = "number" THEN score.v \div 100 ELSE 3)

missingSignalsFallback(label, notObserved) ==
    IF notObserved
    THEN <<"Add direct evidence for " \o label \o " via concrete actions and outcomes.">>
    ELSE <<"Show stronger " \o label \o " evidence tied to measurable outcomes.">>

observationsFallback(label, notObserved, score) ==
    IF notObserved
    THEN <<"No concrete behavior in the transcript maps directly to " \o label \o ".",
           "Further probing is required before assigning a reliable score.">>
    ELSE <<"Observed signals suggest " \o label \o " at approximately level "
               \o levelText(score) \o ".",
           "Evidence contains specific statements but could include more quantification.">>

concernsFallback(label, notObserved, missingSignals) ==
    IF notObserved
    THEN <<"Cannot validate " \o label \o " from current response.">>
    ELSE SubSeq(missingSignals, 1, Min(2, Len(missingSignals)))

probesFallback(label, notObserved) ==
    IF notObserved
    THEN <<"Describe a situation that demonstrates " \o label \o " with concrete steps.",
           "What outcome changed because of your direct actions?">>
    ELSE <<"Which tradeoff did you reject and why?",
           "What metric changed after your intervention?">>

\* A quotient that is no whole number of hundredths is kept as a fraction
\* [num, den] of hundredths; a field of the Scorecard holds it at the hundredth
\* below, which leaves its comparisons with 0 and 1 as they are.
clampFraction(fraction, lo, hi) ==
    IF fraction.num < lo * fraction.den THEN [num |-> lo, den |-> 1]
    ELSE IF fraction.num > hi * fraction.den THEN [num |-> hi, den |-> 1]
    ELSE fraction

heldNumber(fraction) == Num(fraction.num \div fraction.den)

RECURSIVE relevanceSum(_, _)
\* evidence.reduce((sum, entry) => sum + entry.relevance, 0) over the first k
relevanceSum(evidence, k) ==
    IF k = 0 THEN 0 ELSE relevanceSum(evidence, k - 1) + evidence[k].v.relevance.v

\* citedSegmentCount / availableSegmentCount, or 0, as a fraction of whole numbers
evidenceCoverageRatio(assessment) ==
    LET coverage == assessment.v.evidenceCoverage.v IN
    IF coverage.availableSegmentCount.v > 0
    THEN [num |-> coverage.citedSegmentCount.v \div 100,
          den |-> coverage.availableSegmentCount.v \div 100]
    ELSE [num |-> 0, den |-> 1]

evidenceQualityOf(rawRecord, assessment) ==
    LET given == toRelevance(Get(rawRecord, "evidenceQuality"))
        evidence == assessment.v.evidence.v
    IN clampFraction(
           IF given.t # "null" THEN [num |-> given.v, den |-> 1]
           ELSE IF Len(evidence) > 0
                THEN [num |-> relevanceSum(evidence, Len(evidence)), den |-> Len(evidence)]
                ELSE [num |-> IF assessment.v.notObserved.v THEN 25 ELSE 50, den |-> 1],
           0, 100)

\* 0.62 + Math.min(evidenceCoverageRatio * 0.2, 0.18)
inferredConsistency(ratio) ==
    IF 20 * ratio.num <= 18 * ratio.den
    THEN [num |-> 62 * ratio.den + 20 * ratio.num, den |-> ratio.den]
    ELSE [num |-> 80, den |-> 1]

consistencyOf(rawRecord, assessment) ==
    LET given == toRelevance(Get(rawRecord, "consistency")) IN
    clampFraction(
        IF given.t # "null" THEN [num |-> given.v, den |-> 1]
        ELSE IF assessment.v.notObserved.v THEN [num |-> 35, den |-> 1]
        ELSE inferredConsistency(evidenceCoverageRatio(assessment)),
        0, 100)

\* Math.round of a fraction of hundredths, as a number of the model
roundFraction(fraction) ==
    Num(100 * ((2 * fraction.num + 100 * fraction.den) \div (200 * fraction.den)))

\* (evidenceQuality * 0.45 + consistency * 0.35 + evidenceCoverageRatio * 0.2) * 100
inferredConfidence(evidenceQuality, consistency, ratio) ==
    [num |-> 45 * evidenceQuality.num * consistency.den * ratio.den
             + 35 * consistency.num * evidenceQuality.den * ratio.den
             + 2000 * ratio.num * evidenceQuality.den * consistency.den,
     den |-> evidenceQuality.den * consistency.den * ratio.den]

\* variant of normalizeConfidence that rounds without clamping
normalizeConfidenceUnclamped(rawConfidence, evidenceQuality, consistency, ratio) ==
    LET explicitConfidence == toFiniteNumber(rawConfidence) IN
    IF explicitConfidence.t # "null"
    THEN roundFraction([num |-> explicitConfidence.v, den |-> 1])
    ELSE roundFraction(inferredConfidence(evidenceQuality, consistency, ratio))

normalizeConfidence(rawConfidence, evidenceQuality, consistency, ratio) ==
    LET explicitConfidence == toFiniteNumber(rawConfidence) IN
    IF explicitConfidence.t # "null"
    THEN roundFraction(clampFraction([num |-> explicitConfidence.v, den |-> 1], 0, 10000))
    ELSE roundFraction(clampFraction(inferredConfidence(evidenceQuality, consistency, ratio),
                                     0, 10000))

\* chosenLevel of normalizeAnchorAlignment (report.ts 2216-2258)
chosenLevelOf(rawValue, score) ==
    LET fallbackChosenLevel == IF score.t = "number" THEN score ELSE Num(300) IN
    IF ~isRecord(rawValue) THEN fallbackChosenLevel
    ELSE IF toFiniteNumber(Get(rawValue, "chosenLevel")).t # "null"
         THEN Num(clamp(MathRound(toFiniteNumber(Get(rawValue, "chosenLevel")).v), 100, 500))
         ELSE Num(clamp(MathRound(fallbackChosenLevel.v), 100, 500))

\* the numeric fields of normalizeDimension beside the score (report.ts 2343-2368, 2405)
numericFields(rawRecord, assessment, evidenceQuality, consistency) ==
    [evidenceQuality |-> heldNumber(evidenceQuality),
     consistency |-> heldNumber(consistency),
     confidence |-> normalizeConfidence(Get(rawRecord, "confidence"), evidenceQuality,
                                        consistency, evidenceCoverageRatio(assessment)),
     anchorAlignment |->
         Obj([chosenLevel |-> chosenLevelOf(Get(rawRecord, "anchorAlignment"),
                                            assessment.v.score)])]

\* the assessment with its label, numeric fields and string lists, given the
\* two lists that other lists fall back on
assessmentWithLists(assessment, rawRecord, label, missingSignals, observations) ==
    Obj(assessment.v
        @@ numericFields(rawRecord, assessment, evidenceQualityOf(rawRecord, assessment),
                         consistencyOf(rawRecord, assessment))
        @@ [label |-> Str(label),
            missingSignals |-> stringsOf(missingSignals),
            observations |-> stringsOf(observations),
            observedSignals |->
                stringsOf(ensureMinItems(toStringArray(Get(rawRecord, "observedSignals"), <<>>),
                                         observations, 2, 4)),
            concerns |->
                stringsOf(ensureMinItems(toStringArray(Get(rawRecord, "concerns"), <<>>),
                                         concernsFallback(label, assessment.v.notObserved.v,
                                                          missingSignals),
                                         1, 3)),
            probes |->
                stringsOf(ensureMinItems(toStringArray(Get(rawRecord, "probes"), <<>>),
                                         probesFallback(label, assessment.v.notObserved.v),
                                         2, 3))])

\* The segments of the model carry no text; each stands for a segment whose
\* text names it in fewer than 25 words, which toMaxWords returns as it is.
segmentText(segmentId) == "Answer part " \o segmentId

AnchorLevels == {"1", "2", "3", "4", "5"}

createDefaultAnchors(label, description) ==
    LET base == IF Trim(label) # "" THEN Trim(label) ELSE "the dimension"
        detail == IF Trim(description) # "" THEN Trim(description) ELSE "the competency"
    IN [level \in AnchorLevels |->
           Str(CASE level = "1" ->
                        "Signals are largely absent for " \o base
                            \o "; examples stay vague and do not establish " \o detail \o "."
                 [] level = "2" ->
                        "Some signals appear for " \o base
                            \o ", but evidence is inconsistent and outcomes are weakly supported."
                 [] level = "3" ->
                        "Adequate " \o base
                            \o " with at least one concrete example; reasoning is understandable but uneven in depth."
                 [] level = "4" ->
                        "Strong " \o base
                            \o " with clear reasoning, concrete tradeoffs, and credible outcomes tied to specific actions."
                 [] OTHER ->
                        "Exceptional " \o base
                            \o ": consistently precise, high-impact examples with rigorous reasoning and measurable results.")]

normalizeAnchors(value, fallbackLabel, fallbackDescription) ==
    LET defaults == createDefaultAnchors(fallbackLabel, fallbackDescription) IN
    IF ~isRecord(value) THEN Obj(defaults)
    ELSE Obj([level \in AnchorLevels |->
                 Str(toNormalizedString(Get(value, level), defaults[level].v))])

\* the candidate entry normalizeEvidence pushed for a segment id: the first
\* object of the raw list whose trimmed segmentId is that id, if the list has one
hasRawEntry(rawValue, segmentId) ==
    /\ rawValue.t = "array"
    /\ \E k \in 1..Len(rawValue.v) :
           /\ isRecord(rawValue.v[k])
           /\ toNormalizedString(Get(rawValue.v[k], "segmentId"), "") = segmentId

rawEntryFor(rawValue, segmentId) ==
    rawValue.v[CHOOSE k \in 1..Len(rawValue.v) :
                   /\ isRecord(rawValue.v[k])
                   /\ toNormalizedString(Get(rawValue.v[k], "segmentId"), "") = segmentId
                   /\ \A j \in 1..(k - 1) :
                          ~(/\ isRecord(rawValue.v[j])
                            /\ toNormalizedString(Get(rawValue.v[j], "segmentId"), "") = segmentId)]

\* quote and interpretation of one entry of normalizeEvidence (report.ts 2172-2179, 2204-2205)
quotedEntry(entry, rawValue, context, dimensionLabel) ==
    LET segmentId == entry.v.segmentId.v IN
    IF hasRawEntry(rawValue, segmentId)
    THEN Obj(entry.v
             @@ [quote |->
                     Str(toNormalizedString(
                             Get(rawEntryFor(rawValue, segmentId), "quote"),
                             IF segmentByIdHas(context.segments, segmentId)
                             THEN segmentText(segmentId)
                             ELSE "Evidence excerpt unavailable.")),
                 interpretation |->
                     Str(toNormalizedString(
                             Get(rawEntryFor(rawValue, segmentId), "interpretation"),
                             dimensionLabel
                                 \o " signal from candidate action and stated outcome in this segment."))])
    ELSE Obj(entry.v
             @@ [quote |-> Str(segmentText(segmentId)),
                 interpretation |->
                     Str(dimensionLabel \o " signal grounded in this quoted segment.")])

\* the assessment with its anchors and with the text of its evidence
withAnchorsAndQuotes(assessment, rawRecord, descriptor, context) ==
    Obj([anchors |-> normalizeAnchors(Get(rawRecord, "anchors"), descriptor.label,
                                      descriptor.description),
         evidence |->
             Arr([k \in 1..Len(assessment.v.evidence.v) |->
                     quotedEntry(assessment.v.evidence.v[k], Get(rawRecord, "evidence"),
                                 context, descriptor.label)])]
        @@ assessment.v)

\* normalizeDimension with its string lists
normalizeDimensionLists(rawDimension, descriptor, dimensionIndex, context) ==
    LET assessment == normalizeDimension(rawDimension, descriptor, dimensionIndex, context)
        rawRecord == rawRecordOf(rawDimension)
    IN withAnchorsAndQuotes(
           assessmentWithLists(
               assessment, rawRecord, descriptor.label,
               ensureMinItems(toStringArray(Get(rawRecord, "missingSignals"), <<>>),
                              missingSignalsFallback(descriptor.label, assessment.v.notObserved.v),
                              1, 4),
               ensureMinItems(toStringArray(Get(rawRecord, "observations"), <<>>),
                              observationsFallback(descriptor.label, assessment.v.notObserved.v,
                                                   assessment.v.score),
                              2, 4)),
           rawRecord, descriptor, context)

\* the notes of deriveCalibratedRecommendation (report.ts 1968-2000):
\* weightedScore.toFixed(2) and (coverageRatio * 100).toFixed(0) are printed
\* as the rounded whole numbers of hundredths and of percent
calibrationNotesOf(dimensions, calibration) ==
    <<"Weighted score "
          \o ToString((200 * calibration.weightedScore.num.q + calibration.weightedScore.den.q)
                      \div (2 * calibration.weightedScore.den.q))
          \o " derived from dimension importance (problem solving and ownership weighted highest).",
      "Average evidence coverage ratio is "
          \o ToString((2 * calibration.coverageRatio.num + calibration.coverageRatio.den)
                      \div (2 * calibration.coverageRatio.den))
          \o "%.">>
    \o (IF hasCoreNotObserved(dimensions)
        THEN <<"At least one core dimension is not observed, so recommendation is capped at LeanHire.">>
        ELSE <<>>)
    \o (IF FracLT(calibration.coverageRatio, 35)
        THEN <<"Evidence coverage is below 35%, so recommendation is capped at LeanHire.">>
        ELSE <<>>)
    \o (IF lowScoreCount(dimensions) >= 2
        THEN <<"Multiple dimensions scored at or below 2, so recommendation is capped at LeanNo.">>
        ELSE <<>>)

isHighDimension(dimension) ==
    /\ ~dimension.v.notObserved.v
    /\ dimension.v.score.t = "number"
    /\ dimension.v.score.v >= 400

isLowDimension(dimension) ==
    \/ dimension.v.notObserved.v
    \/ (dimension.v.score.t = "number" /\ dimension.v.score.v <= 200)

firstOf(list, n) == SubSeq(list, 1, Min(n, Len(list)))

fallbackStrengths(dimensions) ==
    LET highDimensions == firstOf(SelectSeq(dimensions, isHighDimension), 3) IN
    [i \in 1..Len(highDimensions) |->
        highDimensions[i].v.label.v \o ": aligned with higher rubric anchors."]
    \o <<"Candidate communicates decision context and outcomes with interviewer-friendly structure.",
         "Evidence includes at least one concrete, role-owned action sequence.",
         "Response shows some consistency across cited segments.">>

fallbackRisks(dimensions) ==
    LET lowDimensions == firstOf(SelectSeq(dimensions, isLowDimension), 3) IN
    [i \in 1..Len(lowDimensions) |->
        IF lowDimensions[i].v.notObserved.v
        THEN lowDimensions[i].v.label.v \o ": not observed; targeted probing required."
        ELSE lowDimensions[i].v.label.v
                 \o ": current evidence does not yet support stronger anchor levels."]
    \o <<"Evidence coverage may be insufficient for high-confidence leveling.",
         "Some claims are directional and would benefit from stronger quantification.">>

RECURSIVE flatProbes(_, _)
\* dimensions.flatMap((dimension) => dimension.probes ?? []) over the first k
flatProbes(dimensions, k) ==
    IF k = 0 THEN <<>>
    ELSE flatProbes(dimensions, k - 1)
         \o [i \in 1..Len(dimensions[k].v.probes.v) |-> dimensions[k].v.probes.v[i].v]

fallbackMustFix(recommendation) ==
    IF recommendation \in {"StrongHire", "Hire"}
    THEN <<>>
    ELSE <<"Provide at least one concrete example with measurable outcome for the weakest dimension.",
           "Clarify decision tradeoffs and ownership boundaries in follow-up questions.">>

\* the Scorecard with its string lists, given keyRisks, on which risks falls back
\* role of normalizeLeveling, whose fallback is the role of deriveLeveling
levelingRole(value) ==
    IF ~isRecord(value) THEN "Software Engineer"
    ELSE toNormalizedString(Get(value, "role"), "Software Engineer")

scorecardWithLists(sourceReport, dimensions, calibration, keyRisks, context) ==
    Obj([overallSummary |->
             Str(toNormalizedString(
                     Get(sourceReport, "overallSummary"),
                     "Interview response reviewed with anchor-based scoring and evidence-linked notes.")),
         leveling |->
             Obj([role |-> Str(levelingRole(Get(sourceReport, "leveling"))),
                  level |-> Str(normalizeLeveling(Get(sourceReport, "leveling"),
                                                  deriveLeveling(calibration.weightedScore)))]),
         overallRecommendation |-> Str(calibration.recommendation),
         dimensions |-> Arr(dimensions),
         coverageMap |->
             IF Len(context.segments) > 0
             THEN createCoverageMap(dimensions, context.segments)
             ELSE createCoverageMapFromEvidence(dimensions, context.availableSegmentCount),
         calibrationNotes |->
             stringsOf(ensureMinItems(toStringArray(Get(sourceReport, "calibrationNotes"), <<>>),
                                      calibrationNotesOf(dimensions, calibration), 2, 6)),
         decisionRationale |->
             stringsOf(ensureMinItems(
                 toStringArray(Get(sourceReport, "decisionRationale"), <<>>),
                 <<"Recommendation is " \o calibration.recommendation
                       \o " based on observed rubric evidence.",
                   "Scores emphasize anchor alignment, evidence quality, and cross-segment consistency.",
                   "Confidence reflects both breadth of evidence and specificity of cited statements.">>,
                 3, 5)),
         keyStrengths |->
             stringsOf(ensureMinItems(toStringArray(Get(sourceReport, "keyStrengths"), <<>>),
                                      fallbackStrengths(dimensions), 3, 5)),
         keyRisks |-> stringsOf(keyRisks),
         followUps |->
             stringsOf(ensureMinItems(toStringArray(Get(sourceReport, "followUps"), <<>>),
                                      firstOf(flatProbes(dimensions, Len(dimensions)), 4), 1, 6)),
         risks |->
             stringsOf(ensureMinItems(toStringArray(Get(sourceReport, "risks"), <<>>),
                                      keyRisks, 1, 6)),
         mustFixToHire |->
             stringsOf(ensureMinItems(toStringArray(Get(sourceReport, "mustFixToHire"), <<>>),
                                      fallbackMustFix(calibration.recommendation),
                                      IF Len(fallbackMustFix(calibration.recommendation)) > 0
                                      THEN 1 ELSE 0,
                                      4))])

listsOfDimensions(sourceReport, dimensions, context) ==
    scorecardWithLists(sourceReport, dimensions, deriveCalibratedRecommendation(dimensions),
                       ensureMinItems(toStringArray(Get(sourceReport, "keyRisks"), <<>>),
                                      fallbackRisks(dimensions), 2, 4),
                       context)

\* normalizeModernReport with its string lists
normalizeModernReportLists(sourceReport, context) ==
    listsOfDimensions(
        sourceReport,
        [i \in 1..Len(context.dimensions) |->
            normalizeDimensionLists(
                sourceByIdGet(sourceDimensionsOf(sourceReport), context.dimensions[i].key),
                context.dimensions[i], i - 1, context)],
        context)

\* evidenceEntries of modernLike with their text: quote is toMaxWords(entry.quote, 25)
legacyQuotedEvidence(legacyItems, descriptor, evidenceEntries) ==
    [k \in 1..Len(evidenceEntries) |->
        Obj(evidenceEntries[k].v
            @@ [quote |->
                    Str(Trim(Get(Get(itemByKeyGet(legacyItems, descriptor.key), "evidence").v[k],
                                 "quote").v)),
                interpretation |-> Str("Legacy evidence mapped from prior report format.")])]

\* the numeric fields and string lists of one element of modernLike.dimensions
legacyDimensionLists(legacyItems, descriptor, context) ==
    Obj([anchors |-> Obj(createDefaultAnchors(descriptor.label, descriptor.description)),
         evidence |->
             Arr(legacyQuotedEvidence(
                     legacyItems, descriptor,
                     legacyDimension(legacyItems, descriptor, context).v.evidence.v))]
        @@ legacyDimension(legacyItems, descriptor, context).v
        @@ (IF itemByKeyHas(legacyItems, descriptor.key)
            THEN LET claim == Get(itemByKeyGet(legacyItems, descriptor.key), "claim") IN
                 [label |-> Str(descriptor.label),
                  confidence |-> Num(6600),
                  evidenceQuality |-> Num(64),
                  consistency |-> Num(60),
                  anchorAlignment |->
                      Obj([chosenLevel |->
                               legacyScore(itemByKeyGet(legacyItems, descriptor.key))]),
                  missingSignals |->
                      stringsOf(<<"Add stronger quantified impact and clearer tradeoff framing.">>),
                  observedSignals |->
                      Arr(<<claim, Str("Legacy score converted to scorecard signals.")>>),
                  concerns |->
                      stringsOf(<<"Legacy report lacked explicit concerns; added calibration-safe default.">>),
                  observations |->
                      Arr(<<claim, Str("Legacy report migrated into anchor-based rubric format.")>>),
                  probes |->
                      stringsOf(<<"What specific metric changed because of your approach?",
                                  "Which stakeholder tradeoff did you explicitly manage?">>)]
            ELSE [label |-> Str(descriptor.label),
                  confidence |-> Num(3800),
                  evidenceQuality |-> Num(30),
                  consistency |-> Num(35),
                  anchorAlignment |-> Obj([chosenLevel |-> Num(300)]),
                  missingSignals |->
                      stringsOf(<<"No direct signal observed for " \o descriptor.label \o ".">>),
                  observedSignals |->
                      stringsOf(<<"No signal observed in legacy report for this dimension.",
                                  "Needs follow-up probing.">>),
                  concerns |->
                      stringsOf(<<"No direct evidence available for " \o descriptor.label \o ".">>),
                  observations |->
                      stringsOf(<<"Legacy report had no matching item for this dimension.",
                                  "Further probing required.">>),
                  probes |->
                      stringsOf(<<"What specific metric changed because of your approach?",
                                  "Which stakeholder tradeoff did you explicitly manage?">>)]))

fromLegacyReportLists(legacyReport, options) ==
    LET context == normalizeOptions(options) IN
    normalizeModernReportLists(
        Obj([overallSummary |-> Get(legacyReport, "summary"),
             dimensions |-> Arr([i \in 1..Len(context.dimensions) |->
                                    legacyDimensionLists(legacyItemsOf(legacyReport),
                                                         context.dimensions[i], context)])]),
        context)

\* consistency of an observed mock dimension: clamp(0.56 + (score - 2) * 0.08, 0, 1)
mockConsistency(score) ==
    clampFraction([num |-> 56 + 8 * ((score.v \div 100) - 2), den |-> 1], 0, 100)

\* evidenceQuality of an observed mock dimension: the mean relevance over
\* Math.max(1, evidence.length)
mockEvidenceQuality(evidence) ==
    clampFraction([num |-> relevanceSum(evidence, Len(evidence)), den |-> Max(1, Len(evidence))],
                  0, 100)

mockNumericFields(dimension, evidenceQuality, consistency) ==
    [evidenceQuality |-> heldNumber(evidenceQuality),
     consistency |-> heldNumber(consistency),
     confidence |->
         roundFraction(clampFraction(inferredConfidence(evidenceQuality, consistency,
                                                        evidenceCoverageRatio(dimension)),
                                     0, 10000)),
     anchorAlignment |-> Obj([chosenLevel |-> dimension.v.score])]

\* the evidence of createMockDimension with its text
mockQuotedEvidence(evidence, label) ==
    [k \in 1..Len(evidence) |->
        Obj(evidence[k].v
            @@ [quote |-> Str(segmentText(evidence[k].v.segmentId.v)),
                interpretation |->
                    Str(label
                        \o " is supported by concrete action and outcome language in this segment.")])]

\* the numeric fields and string lists of createMockDimension
mockDimensionLists(dimension, label) ==
    Obj([evidence |-> Arr(mockQuotedEvidence(dimension.v.evidence.v, label))]
        @@ dimension.v
        @@ (IF dimension.v.notObserved.v
            THEN [confidence |-> Num(3400),
                  evidenceQuality |-> Num(22),
                  consistency |-> Num(31),
                  anchorAlignment |-> Obj([chosenLevel |-> Num(200)])]
            ELSE mockNumericFields(dimension, mockEvidenceQuality(dimension.v.evidence.v),
                                   mockConsistency(dimension.v.score)))
        @@ (IF dimension.v.notObserved.v
            THEN [label |-> Str(label),
                  missingSignals |->
                      stringsOf(<<"No transcript segment clearly demonstrates " \o label \o ".",
                                  "Need a concrete example with role, action, and measurable result.">>),
                  observedSignals |->
                      stringsOf(<<"No specific statement in transcript demonstrates " \o label \o ".",
                                  "Candidate response did not provide enough behavioral detail for this dimension.">>),
                  concerns |->
                      stringsOf(<<"Core signal for " \o label \o " is missing.",
                                  "Recommendation is calibrated downward until this is observed.">>),
                  observations |->
                      stringsOf(<<"Current answer does not provide direct behavioral evidence for "
                                      \o label \o ".",
                                  "Interviewer should probe for a specific situation and outcome.">>),
                  probes |->
                      stringsOf(<<"Can you share one example that directly demonstrates "
                                      \o label \o "?",
                                  "What did you personally do, and what changed as a result?">>)]
            ELSE [label |-> Str(label),
                  missingSignals |->
                      stringsOf(<<"Add one more quantified outcome to increase anchor certainty.",
                                  "Clarify rejected alternatives and why they were deprioritized.">>),
                  observedSignals |->
                      stringsOf(<<"Provides a concrete example that demonstrates " \o label \o ".",
                                  "Describes tradeoffs and outcomes with enough specificity for scoring.",
                                  "Evidence references candidate-owned actions instead of generic team statements.">>),
                  concerns |->
                      stringsOf(<<"Could include clearer baseline metrics to strengthen comparability.",
                                  "Would benefit from one additional example under stronger constraints.">>),
                  observations |->
                      stringsOf(<<label \o " is demonstrated with specific actions in cited transcript segments.",
                                  "Reasoning is mostly coherent but could better quantify downstream impact.",
                                  "Decision framing is credible and tied to candidate-owned execution.">>),
                  probes |->
                      stringsOf(<<"What was the hardest tradeoff you made, and how did you validate it?",
                                  "Which metric or signal best proved your approach worked?",
                                  "If you repeated this now, what would you change first?">>)]))

mockStrengths(dimensions) ==
    LET high == SelectSeq(dimensions, isHighDimension) IN
    firstOf([i \in 1..Len(high) |->
                high[i].v.label.v \o ": evidence supports higher-anchor behavior."], 5)

\* (dimension.score ?? 5) <= 2 is isLowDimension: a null score counts as 5
mockRisks(dimensions) ==
    LET low == SelectSeq(dimensions, isLowDimension) IN
    firstOf([i \in 1..Len(low) |->
                IF low[i].v.notObserved.v
                THEN low[i].v.label.v
                         \o ": not observed in this response; hiring risk remains unvalidated."
                ELSE low[i].v.label.v
                         \o ": score is currently below hiring bar due to weak evidence."], 4)

\* createMockTopLevel with its string lists
mockScorecardLists(dimensions, calibrated, context) ==
    Obj([overallSummary |->
             Str("Mock hiring-loop summary for \"Unknown question\": anchored scoring is based on segment-linked evidence and interviewer-style rationale."),
         leveling |->
             Obj([role |-> Str("Software Engineer"),
                  level |-> Str(deriveLeveling(calibrated.weightedScore))]),
         overallRecommendation |-> Str(calibrated.recommendation),
         dimensions |-> Arr(dimensions),
         coverageMap |-> createCoverageMap(dimensions, context.segments),
         calibrationNotes |->
             stringsOf(ensureMinItems(
                 calibrationNotesOf(dimensions, calibrated),
                 <<"Calibration adjusts recommendation when core signals are missing or evidence coverage is thin.",
                   "NotObserved dimensions reduce confidence and cap recommendation.">>,
                 2, 6)),
         risks |->
             stringsOf(ensureMinItems(
                 mockRisks(dimensions),
                 <<"No immediate blockers identified from this single response.">>, 1, 6)),
         followUps |->
             stringsOf(ensureMinItems(
                 firstOf(flatProbes(dimensions, Len(dimensions)), 5),
                 <<"What would you do differently in hindsight, and why?">>, 1, 6)),
         decisionRationale |->
             stringsOf(<<"Recommendation " \o calibrated.recommendation
                             \o " is driven by weighted dimension scores and calibration rules.",
                         "Confidence weights evidence quality, cross-segment consistency, and citation coverage.",
                         "One dimension is intentionally marked not observed to model realistic interviewer uncertainty.">>),
         keyStrengths |->
             stringsOf(ensureMinItems(
                 mockStrengths(dimensions)
                 \o <<"Candidate provides concrete behavior tied to at least one measurable outcome.",
                      "Evidence includes explicit ownership and decision rationale.",
                      "Communication clarity is sufficient for interviewer calibration.">>,
                 <<"Response includes at least one concrete, evidence-backed decision narrative.">>,
                 3, 5)),
         keyRisks |->
             stringsOf(ensureMinItems(
                 mockRisks(dimensions)
                 \o <<"Coverage is not broad enough to remove all uncertainty for final recommendation.",
                      "Some evidence is medium-strength and needs corroboration in follow-up rounds.">>,
                 <<"Insufficient behavioral evidence in at least one dimension.">>,
                 2, 4)),
         mustFixToHire |->
             stringsOf(IF calibrated.recommendation \in {"StrongHire", "Hire"}
                       THEN <<>>
                       ELSE <<"Demonstrate the not-observed dimension with one concrete example.",
                              "Increase evidence quality by adding measurable outcomes tied to actions.">>)])

mockListsOfDimensions(dimensions, context) ==
    mockScorecardLists(dimensions, deriveCalibratedRecommendation(dimensions), context)

createMockReportLists(body) ==
    LET context == normalizedContextFromRequest(body) IN
    mockListsOfDimensions(
        [i \in 1..Len(context.dimensions) |->
            Obj([anchors |-> Obj(createDefaultAnchors(context.dimensions[i].label,
                                                      context.dimensions[i].description))]
                @@ mockDimensionLists(mockDimensionsOf(context)[i],
                                      context.dimensions[i].label).v)],
        context)

normalizeFromUnknownLists(value, context) ==
    IF isLegacyReportResponseBody(value)
    THEN fromLegacyReportLists(value, legacyOptionsOf(context))
    ELSE IF isRecord(value) THEN normalizeModernReportLists(value, context)
    ELSE createMockReportLists([segments |-> context.segments, rubric |-> context.dimensions])

\* descriptors with labels; two of them share one label
LabeledDescriptors ==
    [problemSolving |-> [key |-> "problemSolving", label |-> "Problem Solving",
                         description |-> "Breaks down problems and weighs tradeoffs"],
     collaboration |-> [key |-> "collaboration", label |-> "Collaboration",
                        description |-> "Works with others"],
     ownership |-> [key |-> "ownership", label |-> "Problem Solving",
                    description |-> "Owns outcomes"]]

LabeledRubrics ==
    {<<>>,
     <<LabeledDescriptors.problemSolving>>,
     <<LabeledDescriptors.problemSolving, LabeledDescriptors.collaboration>>,
     <<LabeledDescriptors.problemSolving, LabeledDescriptors.ownership>>,
     <<LabeledDescriptors.problemSolving, LabeledDescriptors.collaboration,
       LabeledDescriptors.ownership>>}

\* what a payload can hold where a list of strings is expected: nothing, a
\* string, lists with blanks, numbers and repeated entries, a list longer than
\* every maximum, and a list of two fallback sentences
ListValues ==
    {Undef,
     Str("a"),
     Arr(<<>>),
     Arr(<<Str("a")>>),
     Arr(<<Str("a"), Str(" a "), Num(100), Str("  "), Null>>),
     Arr(<<Str("a"), Str("b"), Str("c")>>),
     Arr([i \in 1..7 |-> Str("n" \o ToString(i))]),
     Arr(<<Str("Evidence coverage may be insufficient for high-confidence leveling."),
           Str("Further probing is required before assigning a reliable score.")>>)}

\* a modern payload with one candidate: first holds the lists other lists
\* fall back on, second the lists that fall back on them
ListsPayload(first, second, notObserved, score) ==
    Obj([dimensions |->
             Arr(<<Obj([id |-> Str("problemSolving"),
                        score |-> score,
                        notObserved |-> notObserved,
                        missingSignals |-> first,
                        observations |-> first,
                        probes |-> first,
                        observedSignals |-> second,
                        concerns |-> second])>>),
         calibrationNotes |-> first,
         decisionRationale |-> first,
         keyStrengths |-> first,
         keyRisks |-> first,
         risks |-> second,
         followUps |-> second,
         mustFixToHire |-> second])

\* what a payload can hold where a number is expected
NumericValues ==
    {Undef, NaN, Str("4"), Str("many"), Num(-500), Num(66), Num(100), Num(250), Num(6650),
     Num(15000)}

\* a modern payload whose candidate holds one value in every numeric field
NumbersPayload(value, notObserved) ==
    Obj([dimensions |->
             Arr(<<Obj([id |-> Str("problemSolving"),
                        score |-> value,
                        notObserved |-> notObserved,
                        confidence |-> value,
                        evidenceQuality |-> value,
                        consistency |-> value,
                        anchorAlignment |-> Obj([chosenLevel |-> value]),
                        evidence |-> Arr(<<Obj([segmentId |-> Str("s1"), relevance |-> value]),
                                           Obj([segmentId |-> Str("s2"), confidence |-> value,
                                                strength |-> Str("weak")]),
                                           Obj([segmentId |-> Str("s3")])>>)])>>)])

\* the transcripts of SpecFields: none, two segments, and segments that start
\* before 0 or end before they start
FieldSegmentLists ==
    {<<>>,
     SubSeq(AllSegments, 1, 2),
     <<[id |-> "s1", start |-> -50, end |-> 100],
       [id |-> "s2", start |-> -30, end |-> -10],
       [id |-> "s3", start |-> 300, end |-> 250]>>}

\* what a payload can hold where a text is expected
TextValues == {Undef, Null, Num(100), Str("  "), Str(" a "), Arr(<<>>), Obj(<<>>)}

\* a modern payload that holds one value wherever a text or an object of
\* texts is expected
TextsPayload(value) ==
    Obj([overallSummary |-> value,
         overallRecommendation |-> value,
         leveling |-> IF value.t = "string" THEN Obj([role |-> value, level |-> value])
                      ELSE value,
         coverageMap |-> value,
         dimensions |->
             Arr(<<Obj([id |-> Str("problemSolving"),
                        label |-> value,
                        score |-> Num(400),
                        anchors |-> IF value.t = "string"
                                    THEN Obj([level \in {"1", "2"} |-> value])
                                    ELSE value,
                        evidence |-> Arr(<<Obj([segmentId |-> Str("s1"), quote |-> value,
                                                interpretation |-> value, strength |-> value]),
                                           Obj([segmentId |-> Str("zz"), quote |-> value])>>)])>>)])

LegacyListsPayloads ==
    {Obj([summary |-> Str("summary"), items |-> Arr(<<>>)]),
     Obj([summary |-> Str("summary"), items |-> Arr(<<ItemPool[1]>>)]),
     Obj([summary |-> Str("summary"),
          items |-> Arr(<<Obj([dimensionKey |-> Str("problemSolving"), score |-> Num(200),
                               claim |-> Str("  "), evidence |-> Arr(<<>>)])>>)])}

InitFields ==
    /\ \E rubric \in LabeledRubrics : \E segments \in FieldSegmentLists :
           fieldsBody = [segments |-> segments, rubric |-> rubric]
    /\ \/ fieldsPayload \in {Null, Str("not json"), Obj(<<>>)} \cup LegacyListsPayloads
       \/ \E value \in NumericValues, notObserved \in {Bool(TRUE), Bool(FALSE), Undef} :
              fieldsPayload = NumbersPayload(value, notObserved)
       \/ \E value \in TextValues : fieldsPayload = TextsPayload(value)
       \/ \E first \in ListValues, second \in ListValues :
          \E notObserved \in {Bool(TRUE), Bool(FALSE)}, score \in {Num(200), Num(500)} :
              fieldsPayload = ListsPayload(first, second, notObserved, score)
    /\ fieldsNormalized = Undef
    /\ fieldsReport = Undef
    /\ fieldsPc = "start"
    /\ NormIdle
    /\ MergeIdle
    /\ CalIdle
    /\ PostIdle
    /\ ReviewIdle
    /\ CoverageIdle
    /\ AgainIdle
    /\ CacheIdle
    /\ TranscribeIdle
    /\ RecordIdle
    /\ StoreIdle

\* first pass: const normalized = normalizeFromUnknown(payload, context)
NormalizeFromUnknownLists ==
    /\ fieldsPc = "start"
    /\ LET context == normalizedContextFromRequest(fieldsBody) IN
       IF normalizeFromUnknownThrows(fieldsPayload, context)
       THEN fieldsPc' = "threw" /\ fieldsNormalized' = fieldsNormalized
       ELSE /\ fieldsPc' = "normalized"
            /\ fieldsNormalized' = normalizeFromUnknownLists(fieldsPayload, context)
    /\ UNCHANGED <<fieldsBody, fieldsPayload, fieldsReport, normVars, mergeVars, calVars,
                   postVars, reviewVars, coverageVars, againVars, cacheVars, transcribeVars,
                   recordVars, storeVars>>

\* second pass: return normalizeModernReport(normalized, context)
NormalizeModernReportLists ==
    /\ fieldsPc = "normalized"
    /\ LET context == normalizedContextFromRequest(fieldsBody) IN
       IF normalizeModernReportThrows(fieldsNormalized, context)
       THEN fieldsPc' = "threw" /\ fieldsReport' = fieldsReport
       ELSE /\ fieldsPc' = "done"
            /\ fieldsReport' = normalizeModernReportLists(fieldsNormalized, context)
    /\ UNCHANGED <<fieldsBody, fieldsPayload, fieldsNormalized, normVars, mergeVars, calVars,
                   postVars, reviewVars, coverageVars, againVars, cacheVars, transcribeVars,
                   recordVars, storeVars>>

NextFields == NormalizeFromUnknownLists \/ NormalizeModernReportLists

SpecFields == InitFields /\ [][NextFields]_vars

(***************************************************************************)
(* SpecAgain: normalizeReportResponse(payload, requestBody) in its two     *)
(* passes, then normalizeReportResponse applied to the report it returned, *)
(* with the same request (report.ts 3342-3349).                            *)
(***************************************************************************)
InitAgain ==
    /\ InitNorm
    /\ pc = "start"
    /\ MergeIdle
    /\ CalIdle
    /\ PostIdle
    /\ ReviewIdle
    /\ CoverageIdle
    /\ MoreIdle

\* normalizeReportResponse(report, requestBody)
NormalizeReportResponseAgain ==
    /\ pc = "done"
    /\ againPc = "idle"
    /\ IF normalizeReportResponseThrows(report, requestBody)
       THEN againPc' = "threw" /\ againReport' = againReport
       ELSE againPc' = "done" /\ againReport' = normalizeReportResponse(report, requestBody)
    /\ UNCHANGED <<normVars, mergeVars, calVars, postVars, reviewVars, coverageVars, fieldVars,
                   cacheVars, transcribeVars, recordVars, storeVars>>

NextAgain == NormalizeFromUnknown \/ NormalizeModernReport \/ NormalizeReportResponseAgain

SpecAgain == InitAgain /\ [][NextAgain]_vars

(***************************************************************************)
(* SpecCache: saveReviewCache and loadReviewCache (reviewCache.ts 96-140)  *)
(* over the localStorage item of the review cache.  A map of the page is a *)
(* function from the question ids to a value or undefined; a stored text   *)
(* is held with the outcome of JSON.parse on it.                           *)
(***************************************************************************)
RECURSIVE jsonOf(_)
\* JSON.parse(JSON.stringify(value)) for a value that is not undefined: a
\* property that is undefined is left out, an element that is undefined or
\* NaN becomes null
jsonOf(value) ==
    CASE value.t = "object" ->
             Obj([f \in {g \in DOMAIN value.v : value.v[g].t # "undefined"} |->
                     jsonOf(value.v[f])])
      [] value.t = "array" ->
             Arr([i \in 1..Len(value.v) |->
                     IF value.v[i].t = "undefined" THEN Null ELSE jsonOf(value.v[i])])
      [] value.t = "NaN" -> Null
      [] OTHER -> value

\* the text JSON.stringify returns for a value, held with its parse
stringified(value) ==
    [t |-> "string", text |-> "stringified", parsed |-> [ok |-> TRUE, value |-> jsonOf(value)]]

\* a Scorecard of the model as a JSON value: its coverage map as objects
coverageMapValue(coverageMap) ==
    Obj([byDimension |->
             Obj([id \in DOMAIN coverageMap.byDimension |->
                     Obj([segmentIds |->
                              stringsOf(coverageMap.byDimension[id].segmentIds),
                          coveragePct |-> Num(coverageMap.byDimension[id].coveragePct)])]),
         bySegment |->
             Obj([segmentId \in DOMAIN coverageMap.bySegment |->
                     Obj([dimensions |->
                              stringsOf(coverageMap.bySegment[segmentId].dimensions)])])])

scorecardValue(scorecard) ==
    Obj([coverageMap |-> coverageMapValue(scorecard.v.coverageMap)] @@ scorecard.v)

REVIEW_CACHE_SCHEMA_VERSION == 1

isTranscriptSegment(value) ==
    /\ isRecord(value)
    /\ Get(value, "id").t = "string"
    /\ Get(value, "id").v # ""
    /\ Get(value, "start").t = "number"
    /\ Get(value, "end").t = "number"
    /\ Get(value, "text").t = "string"

isTranscribeResponse(value) ==
    /\ isRecord(value)
    /\ Get(value, "transcriptText").t = "string"
    /\ Get(value, "segments").t = "array"
    /\ \A i \in 1..Len(Get(value, "segments").v) :
           isTranscriptSegment(Get(value, "segments").v[i])

\* validator(value) for the two validators loadReviewCache hands to toNumberKeyedMap
validates(validator, value) ==
    IF validator = "isTranscribeResponse" THEN isTranscribeResponse(value)
    ELSE isReportResponseBody(value)

\* the keys toNumberKeyedMap keeps: Number(rawKey) is an integer above 0.  The
\* keys of the model have different numbers.
keptKeys(source, validator) ==
    {rawKey \in DOMAIN source.v :
        /\ StringToNumber(rawKey).t = "number"
        /\ StringToNumber(rawKey).v % 100 = 0
        /\ StringToNumber(rawKey).v > 0
        /\ validates(validator, source.v[rawKey])}

\* variant of toNumberKeyedMap that returns nothing when one entry is invalid
toNumberKeyedMapAllOrNothing(source, validator) ==
    IF \A rawKey \in DOMAIN source.v : validates(validator, source.v[rawKey])
    THEN [numericKey \in {StringToNumber(rawKey).v \div 100 : rawKey \in keptKeys(source, validator)} |->
             source.v[CHOOSE rawKey \in keptKeys(source, validator) :
                          StringToNumber(rawKey).v = 100 * numericKey]]
    ELSE <<>>

toNumberKeyedMap(source, validator) ==
    [numericKey \in {StringToNumber(rawKey).v \div 100 : rawKey \in keptKeys(source, validator)} |->
        source.v[CHOOSE rawKey \in keptKeys(source, validator) :
                     StringToNumber(rawKey).v = 100 * numericKey]]

\* Object.entries of a map of the page, with `if (value === undefined) continue`
toStringKeyedMap(source) ==
    Obj([rawKey \in {ToString(q) : q \in {k \in DOMAIN source : source[k].t # "undefined"}} |->
            source[CHOOSE q \in DOMAIN source : ToString(q) = rawKey]])

emptyReviewCache == [transcriptions |-> <<>>, reports |-> <<>>]

\* an object of JSON.parse or {} : isRecord(x) ? x : {}
recordOrEmpty(value) == IF value.t = "object" THEN value ELSE Obj(<<>>)

loadReviewCache(rawValue) ==
    IF rawValue.t = "null" \/ rawValue.text = "" THEN emptyReviewCache
    ELSE IF ~rawValue.parsed.ok THEN emptyReviewCache
    ELSE IF ~isRecord(rawValue.parsed.value) THEN emptyReviewCache
    ELSE IF Get(rawValue.parsed.value, "schemaVersion") # Num(100 * REVIEW_CACHE_SCHEMA_VERSION)
         THEN emptyReviewCache
    ELSE [transcriptions |->
              toNumberKeyedMap(recordOrEmpty(Get(rawValue.parsed.value, "transcriptions")),
                               "isTranscribeResponse"),
          reports |->
              toNumberKeyedMap(recordOrEmpty(Get(rawValue.parsed.value, "reports")),
                               "isReportResponseBody")]

\* the text saveReviewCache hands to localStorage.setItem
savedText(cache) ==
    stringified(Obj([schemaVersion |-> Num(100 * REVIEW_CACHE_SCHEMA_VERSION),
                     transcriptions |-> toStringKeyedMap(cache.transcriptions),
                     reports |-> toStringKeyedMap(cache.reports)]))

\* normalizeReportResponse with the whole Scorecard
normalizeReportResponseLists(value, body) ==
    normalizeModernReportLists(
        normalizeFromUnknownLists(value, normalizedContextFromRequest(body)),
        normalizedContextFromRequest(body))

CacheRequest ==
    [segments |-> SubSeq(AllSegments, 1, 2),
     rubric |-> <<LabeledDescriptors.problemSolving, LabeledDescriptors.collaboration>>]

\* Scorecards of the normalizer and of the mock generator for a validated request
ProducedScorecards ==
    {scorecardValue(normalizeReportResponseLists(value, CacheRequest)) :
        value \in {Null, Obj(<<>>), TextsPayload(Str(" a ")), TextsPayload(Num(100)),
                   NumbersPayload(Num(250), Bool(FALSE)), NumbersPayload(NaN, Bool(TRUE))}}
    \cup {scorecardValue(createMockReportLists(CacheRequest)),
          scorecardValue(createMockReportLists([segments |-> <<>>, rubric |-> CacheRequest.rubric]))}

\* transcriptions as transcribeRecording stores them (review/page.tsx 217-237)
StoredTranscriptions ==
    {Obj([transcriptText |-> Str(""), segments |-> Arr(<<>>)]),
     Obj([transcriptText |-> Str("answer"),
          segments |-> Arr(<<Obj([id |-> Str("q1-s1"), start |-> Num(0), end |-> Num(150),
                                  text |-> Str("")]),
                             Obj([id |-> Str("q1-2"), start |-> Num(150), end |-> Num(150),
                                  text |-> Str("answer")])>>)])}

\* an entry loadReviewCache drops
InvalidEntries ==
    {Null, Obj(<<>>), Str("report"),
     Obj([transcriptText |-> Str("answer"),
          segments |-> Arr(<<Obj([id |-> Str(""), start |-> Num(0), end |-> Num(100),
                                  text |-> Str("")])>>)])}

\* a stored object with one version, one entry under each of four keys of
\* both maps
StoredPayload(schemaVersion, transcription, reportEntry, other) ==
    Obj([schemaVersion |-> schemaVersion,
         transcriptions |-> Obj([rawKey \in {"1", "2", "0", "1.5"} |->
                                    IF rawKey = "2" THEN other ELSE transcription]),
         reports |-> Obj([rawKey \in {"1", "2", "-1", "many"} |->
                             IF rawKey = "2" THEN other ELSE reportEntry])])

\* what localStorage can hold before the page loads: nothing, an empty text,
\* a text that is no JSON, and JSON texts of values that are no cache of
\* version 1, or that hold invalid entries and keys
StoredItems ==
    {Null,
     [t |-> "string", text |-> "", parsed |-> [ok |-> FALSE, value |-> Undef]],
     [t |-> "string", text |-> "{oops", parsed |-> [ok |-> FALSE, value |-> Undef]],
     [t |-> "string", text |-> "null", parsed |-> [ok |-> TRUE, value |-> Null]],
     [t |-> "string", text |-> "42", parsed |-> [ok |-> TRUE, value |-> Num(4200)]],
     stringified(Obj([schemaVersion |-> Num(100)])),
     stringified(Obj([schemaVersion |-> Num(100), transcriptions |-> Str("none"),
                      reports |-> Null]))}
    \cup {stringified(StoredPayload(schemaVersion,
                                    CHOOSE t \in StoredTranscriptions : Len(t.v.segments.v) = 2,
                                    scorecardValue(createMockReportLists(CacheRequest)),
                                    other)) :
             schemaVersion \in {Num(100), Num(200), Str("1"), Undef},
             other \in InvalidEntries}

InitCache ==
    /\ \E storedTranscriptions \in [Questions -> StoredTranscriptions \cup {Undef}],
          storedReports \in [Questions -> ProducedScorecards \cup {Undef}] :
           cacheState = [transcriptions |-> storedTranscriptions, reports |-> storedReports]
    /\ storageItem \in StoredItems
    /\ loadedCache = <<>>
    /\ cachePc = "ready"
    /\ NormIdle
    /\ MergeIdle
    /\ CalIdle
    /\ PostIdle
    /\ ReviewIdle
    /\ CoverageIdle
    /\ FieldsIdle
    /\ AgainIdle
    /\ TranscribeIdle
    /\ RecordIdle
    /\ StoreIdle

\* saveReviewCache(cacheState)
SaveReviewCache ==
    /\ cachePc = "ready"
    /\ storageItem' = savedText(cacheState)
    /\ cachePc' = "saved"
    /\ UNCHANGED <<cacheState, loadedCache, normVars, mergeVars, calVars, postVars, reviewVars,
                   coverageVars, fieldVars, againVars, transcribeVars, recordVars, storeVars>>

\* loadReviewCache()
LoadReviewCache ==
    /\ cachePc \in {"ready", "saved"}
    /\ loadedCache' = loadReviewCache(storageItem)
    /\ cachePc' = IF cachePc = "saved" THEN "reloaded" ELSE "loaded"
    /\ UNCHANGED <<cacheState, storageItem, normVars, mergeVars, calVars, postVars, reviewVars,
                   coverageVars, fieldVars, againVars, transcribeVars, recordVars, storeVars>>

NextCache == SaveReviewCache \/ LoadReviewCache

SpecCache == InitCache /\ [][NextCache]_vars

(***************************************************************************)
(* SpecTranscribe: transcribeRecording (review/page.tsx 183-248) beside    *)
(* generateReport (250-321) for one question of the page.  The Transcribe  *)
(* button is disabled only while that question is transcribing, the        *)
(* Generate Report button only without a transcription or while that       *)
(* question is generating (510-533).                                       *)
(***************************************************************************)
\* isTranscribeResponse of the page (review/page.tsx 52-75), given the segments
isTranscribeResponseOfPage(value) ==
    /\ isRecord(value)
    /\ Get(value, "transcriptText").t = "string"
    /\ Get(value, "segments").t = "array"
    /\ \A i \in 1..Len(Get(value, "segments").v) :
           LET segment == Get(value, "segments").v[i] IN
           /\ isRecord(segment)
           /\ Get(segment, "id").t = "string"
           /\ Get(segment, "start").t = "number"
           /\ Get(segment, "end").t = "number"
           /\ Get(segment, "text").t = "string"

\* normalizedSegments of transcribeRecording for a payload that passed the guard
normalizedSegmentsOf(questionId, transcribed) ==
    [index \in 1..Len(Get(transcribed, "segments").v) |->
        LET segment == Get(transcribed, "segments").v[index]
            rawId == IF Get(segment, "id").t = "string" /\ Get(segment, "id").v # ""
                     THEN Get(segment, "id").v
                     ELSE ToString(index)
        IN [id |-> "q" \o ToString(questionId) \o "-" \o rawId,
            start |-> Get(segment, "start").v,
            end |-> Get(segment, "end").v]]

\* the try block of transcribeRecording after its fetch has settled
transcribeOutcome(questionId, reply) ==
    IF ~reply.fetched THEN [threw |-> TRUE, message |-> "Failed to fetch", transcription |-> Undef]
    ELSE IF reply.payload.t = "undefined"
         THEN [threw |-> TRUE, message |-> "Unexpected token", transcription |-> Undef]
    ELSE IF ~reply.ok
         THEN [threw |-> TRUE,
               message |-> IF isRecord(reply.payload) /\ Get(reply.payload, "error").t = "string"
                           THEN Get(reply.payload, "error").v
                           ELSE "Transcription failed.",
               transcription |-> Undef]
    ELSE IF ~isTranscribeResponseOfPage(reply.payload)
         THEN [threw |-> TRUE, message |-> "Unexpected transcription response format.",
               transcription |-> Undef]
    ELSE [threw |-> FALSE, message |-> "",
          transcription |-> Arr(normalizedSegmentsOf(questionId, reply.payload))]

TranscriptPayload(segments) ==
    Obj([transcriptText |-> Str("answer"), segments |-> Arr(segments)])

TranscribeReplies ==
    {[fetched |-> FALSE, ok |-> FALSE, payload |-> Undef],
     [fetched |-> TRUE, ok |-> FALSE, payload |-> Obj([error |-> Str("Audio file is required.")])],
     [fetched |-> TRUE, ok |-> TRUE, payload |-> Obj(<<>>)],
     [fetched |-> TRUE, ok |-> TRUE,
      payload |-> TranscriptPayload(<<Obj([id |-> Str("s1"), start |-> Num(0), end |-> Num(200),
                                           text |-> Str("answer")])>>)],
     [fetched |-> TRUE, ok |-> TRUE,
      payload |-> TranscriptPayload(<<Obj([id |-> Str(""), start |-> Num(0), end |-> Num(100),
                                           text |-> Str("")]),
                                      Obj([id |-> Str("s2"), start |-> Num(100), end |-> Num(300),
                                           text |-> Str("answer")])>>)]}

\* the questions whose buttons are clicked
TranscribedQuestions == {1}

InitTranscribe ==
    /\ transcriptions = [q \in Questions |-> Undef]
    /\ reports = [q \in Questions |-> Undef]
    /\ reportLoadingByQuestionId = [q \in Questions |-> FALSE]
    /\ reportErrorByQuestionId = [q \in Questions |-> ""]
    /\ reportFetchByQuestionId = [q \in Questions |-> NoFetch]
    /\ transcribeLoadingByQuestionId = [q \in Questions |-> FALSE]
    /\ transcribeErrorByQuestionId = [q \in Questions |-> ""]
    /\ transcribeFetchByQuestionId = [q \in Questions |-> [state |-> "none", reply |-> Undef]]
    /\ NormIdle
    /\ MergeIdle
    /\ CalIdle
    /\ PostIdle
    /\ CoverageIdle
    /\ FieldsIdle
    /\ AgainIdle
    /\ CacheIdle
    /\ RecordIdle
    /\ StoreIdle

\* the Transcribe button, disabled while transcribing: transcribeRecording up
\* to its await of fetch
TranscribeRecording(q) ==
    /\ ~transcribeLoadingByQuestionId[q]
    /\ transcribeLoadingByQuestionId' = [transcribeLoadingByQuestionId EXCEPT ![q] = TRUE]
    /\ transcribeErrorByQuestionId' = [transcribeErrorByQuestionId EXCEPT ![q] = ""]
    /\ reportErrorByQuestionId' = [reportErrorByQuestionId EXCEPT ![q] = ""]
    /\ transcribeFetchByQuestionId' =
           [transcribeFetchByQuestionId EXCEPT ![q] = [state |-> "pending", reply |-> Undef]]
    /\ UNCHANGED <<transcriptions, reports, reportLoadingByQuestionId, reportFetchByQuestionId,
                   normVars, mergeVars, calVars, postVars, coverageVars, fieldVars, againVars,
                   cacheVars, recordVars, storeVars>>

\* the fetch of /api/transcribe and response.json() settle
TranscribeFetchSettles(q) ==
    /\ transcribeFetchByQuestionId[q].state = "pending"
    /\ \E reply \in TranscribeReplies :
           transcribeFetchByQuestionId' =
               [transcribeFetchByQuestionId EXCEPT ![q] = [state |-> "settled", reply |-> reply]]
    /\ UNCHANGED <<reviewVars, transcribeLoadingByQuestionId, transcribeErrorByQuestionId,
                   normVars, mergeVars, calVars, postVars, coverageVars, fieldVars, againVars,
                   cacheVars, recordVars, storeVars>>

\* variant of reportsWithout that keeps the report of the question
reportsKept(storedReports, q) == storedReports

\* setReports((previous) => deleteQuestionKey(previous, questionId))
reportsWithout(storedReports, q) == [storedReports EXCEPT ![q] = Undef]

\* transcribeRecording after the await: try, catch and finally
FinishTranscribeRecording(q) ==
    /\ transcribeFetchByQuestionId[q].state = "settled"
    /\ \E outcome \in {transcribeOutcome(q, transcribeFetchByQuestionId[q].reply)} :
           /\ transcriptions' = IF outcome.threw THEN transcriptions
                                ELSE [transcriptions EXCEPT ![q] = outcome.transcription]
           /\ reports' = IF outcome.threw THEN reports ELSE reportsWithout(reports, q)
           /\ transcribeErrorByQuestionId' =
                  IF outcome.threw
                  THEN [transcribeErrorByQuestionId EXCEPT ![q] = outcome.message]
                  ELSE transcribeErrorByQuestionId
    /\ transcribeLoadingByQuestionId' = [transcribeLoadingByQuestionId EXCEPT ![q] = FALSE]
    /\ transcribeFetchByQuestionId' =
           [transcribeFetchByQuestionId EXCEPT ![q] = [state |-> "none", reply |-> Undef]]
    /\ UNCHANGED <<reportLoadingByQuestionId, reportErrorByQuestionId, reportFetchByQuestionId,
                   normVars, mergeVars, calVars, postVars, coverageVars, fieldVars, againVars,
                   cacheVars, recordVars, storeVars>>

NextTranscribe ==
    \E q \in TranscribedQuestions :
        \/ TranscribeRecording(q)
        \/ TranscribeFetchSettles(q)
        \/ FinishTranscribeRecording(q)
        \/ GenerateReport(q)
        \/ ReportFetchSettles(q)
        \/ FinishGenerateReport(q)

SpecTranscribe == InitTranscribe /\ [][NextTranscribe]_vars

(***************************************************************************)
(* The interview page: startRecording, stopRecording, the auto-stop timer  *)
(* and finalizeRecording.  A recorder carries the number of the            *)
(* startRecording call that created it, and its stream carries the same    *)
(* number, so mediaRecorderRef stands for mediaStreamRef as well.          *)
(***************************************************************************)
MaxStarts == 3
NumRecordQuestions == 2
StartCallIds == 1..MaxStarts
RecordQuestions == 1..NumRecordQuestions

InitRecord ==
    /\ activeQuestionId = 0
    /\ isFinalizing = FALSE
    /\ mediaRecorderRef = 0
    /\ recordingQuestionIdRef = 0
    /\ autoStopTimeoutRef = 0
    /\ pendingTimers = {}
    /\ startCalls = [i \in StartCallIds |-> [question |-> 0, pc |-> "none"]]
    /\ recorderState = [i \in StartCallIds |-> "none"]
    /\ finalizeCalls = [i \in StartCallIds |-> "none"]
    /\ NormIdle
    /\ MergeIdle
    /\ CalIdle
    /\ PostIdle
    /\ ReviewIdle
    /\ CoverageIdle
    /\ FieldsIdle
    /\ AgainIdle
    /\ CacheIdle
    /\ TranscribeIdle
    /\ StoreIdle

otherVarsOfRecord == <<normVars, mergeVars, calVars, postVars, reviewVars, coverageVars, fieldVars,
                       againVars, cacheVars, transcribeVars, storeVars>>

\* the record button of a question: disabled={!canInteract || isFinalizing}
recordButtonEnabled(questionId) ==
    /\ activeQuestionId = 0 \/ activeQuestionId = questionId
    /\ ~isFinalizing

\* clearAutoStopTimeout
timersAfterClear == pendingTimers \ {autoStopTimeoutRef}

\* recorder.stop(): the recorder becomes inactive and its onstop is dispatched
stoppedRecorder(states, recorder) == [states EXCEPT ![recorder] = "inactive"]
queuedOnStop(calls, recorder) == [calls EXCEPT ![recorder] = "queued"]

\* track.stop() on every track of the held stream ends a recorder recording from it
refIsRecording == mediaRecorderRef # 0 /\ recorderState[mediaRecorderRef] = "recording"

\* releaseMediaResources, with setActiveQuestionId(null) and setIsFinalizing(false) after it
ReleaseAndReset(calls) ==
    /\ pendingTimers' = timersAfterClear
    /\ autoStopTimeoutRef' = 0
    /\ recorderState' = IF refIsRecording THEN stoppedRecorder(recorderState, mediaRecorderRef)
                        ELSE recorderState
    /\ finalizeCalls' = IF refIsRecording THEN queuedOnStop(calls, mediaRecorderRef) ELSE calls
    /\ mediaRecorderRef' = 0
    /\ recordingQuestionIdRef' = 0
    /\ activeQuestionId' = 0
    /\ isFinalizing' = FALSE

\* onRecordClick(questionId) with activeQuestionId !== questionId: startRecording up to
\* its await of getUserMedia
StartRecording(questionId) ==
    /\ recordButtonEnabled(questionId)
    /\ activeQuestionId # questionId
    /\ ~(activeQuestionId # 0 \/ isFinalizing)
    /\ \E i \in StartCallIds :
        /\ startCalls[i].pc = "none"
        /\ \A j \in StartCallIds : j < i => startCalls[j].pc # "none"
        /\ startCalls' = [startCalls EXCEPT ![i] = [question |-> questionId, pc |-> "media"]]
    /\ UNCHANGED <<activeQuestionId, isFinalizing, mediaRecorderRef, recordingQuestionIdRef,
                   autoStopTimeoutRef, pendingTimers, recorderState, finalizeCalls>>
    /\ UNCHANGED otherVarsOfRecord

\* getUserMedia resolves: the recorder is created and initializeInterviewRecording awaited
GetUserMediaResolves(i) ==
    /\ startCalls[i].pc = "media"
    /\ startCalls' = [startCalls EXCEPT ![i].pc = "init"]
    /\ recorderState' = [recorderState EXCEPT ![i] = "inactive"]
    /\ UNCHANGED <<activeQuestionId, isFinalizing, mediaRecorderRef, recordingQuestionIdRef,
                   autoStopTimeoutRef, pendingTimers, finalizeCalls>>
    /\ UNCHANGED otherVarsOfRecord

\* getUserMedia or initializeInterviewRecording rejects: the catch block
StartRecordingRejects(i) ==
    /\ startCalls[i].pc \in {"media", "init"}
    /\ startCalls' = [startCalls EXCEPT ![i].pc = "failed"]
    /\ ReleaseAndReset(finalizeCalls)
    /\ UNCHANGED otherVarsOfRecord

\* initializeInterviewRecording resolves: the refs are set, the recorder started, the
\* state set and the auto-stop timer armed
InitializeResolves(i) ==
    /\ startCalls[i].pc = "init"
    /\ startCalls' = [startCalls EXCEPT ![i].pc = "started"]
    /\ recordingQuestionIdRef' = startCalls[i].question
    /\ mediaRecorderRef' = i
    /\ recorderState' = [recorderState EXCEPT ![i] = "recording"]
    /\ activeQuestionId' = startCalls[i].question
    /\ autoStopTimeoutRef' = i
    /\ pendingTimers' = timersAfterClear \cup {i}
    /\ UNCHANGED <<isFinalizing, finalizeCalls>>
    /\ UNCHANGED otherVarsOfRecord

\* onRecordClick(questionId) with activeQuestionId === questionId: stopRecording
StopRecording(questionId) ==
    /\ recordButtonEnabled(questionId)
    /\ activeQuestionId = questionId
    /\ IF refIsRecording
       THEN /\ pendingTimers' = timersAfterClear
            /\ autoStopTimeoutRef' = 0
            /\ isFinalizing' = TRUE
            /\ recorderState' = stoppedRecorder(recorderState, mediaRecorderRef)
            /\ finalizeCalls' = queuedOnStop(finalizeCalls, mediaRecorderRef)
       ELSE UNCHANGED <<pendingTimers, autoStopTimeoutRef, isFinalizing, recorderState,
                        finalizeCalls>>
    /\ UNCHANGED <<activeQuestionId, mediaRecorderRef, recordingQuestionIdRef, startCalls>>
    /\ UNCHANGED otherVarsOfRecord

\* the callback of the auto-stop timer
AutoStopFires(timer) ==
    /\ timer \in pendingTimers
    /\ pendingTimers' = pendingTimers \ {timer}
    /\ IF refIsRecording
       THEN /\ isFinalizing' = TRUE
            /\ recorderState' = stoppedRecorder(recorderState, mediaRecorderRef)
            /\ finalizeCalls' = queuedOnStop(finalizeCalls, mediaRecorderRef)
       ELSE UNCHANGED <<isFinalizing, recorderState, finalizeCalls>>
    /\ UNCHANGED <<activeQuestionId, mediaRecorderRef, recordingQuestionIdRef, autoStopTimeoutRef,
                   startCalls>>
    /\ UNCHANGED otherVarsOfRecord

\* recorder.onstop: finalizeRecording reads the refs; with the metadata lost it runs its
\* finally block at once, otherwise it awaits the chunk queue and the store
FinalizeRecordingBegins(recorder) ==
    /\ finalizeCalls[recorder] = "queued"
    /\ IF recordingQuestionIdRef = 0
       THEN ReleaseAndReset([finalizeCalls EXCEPT ![recorder] = "lost"])
       ELSE /\ finalizeCalls' = [finalizeCalls EXCEPT ![recorder] = "awaiting"]
            /\ UNCHANGED <<activeQuestionId, isFinalizing, mediaRecorderRef,
                           recordingQuestionIdRef, autoStopTimeoutRef, pendingTimers,
                           recorderState>>
    /\ UNCHANGED startCalls
    /\ UNCHANGED otherVarsOfRecord

\* the awaits of finalizeRecording settle: its finally block
FinalizeRecordingEnds(recorder) ==
    /\ finalizeCalls[recorder] = "awaiting"
    /\ ReleaseAndReset([finalizeCalls EXCEPT ![recorder] = "saved"])
    /\ UNCHANGED startCalls
    /\ UNCHANGED otherVarsOfRecord

NextRecord ==
    \/ \E questionId \in RecordQuestions : StartRecording(questionId)
    \/ \E i \in StartCallIds : GetUserMediaResolves(i)
    \/ \E i \in StartCallIds : StartRecordingRejects(i)
    \/ \E i \in StartCallIds : InitializeResolves(i)
    \/ \E questionId \in RecordQuestions : StopRecording(questionId)
    \/ \E timer \in StartCallIds : AutoStopFires(timer)
    \/ \E recorder \in StartCallIds : FinalizeRecordingBegins(recorder)
    \/ \E recorder \in StartCallIds : FinalizeRecordingEnds(recorder)

SpecRecord == InitRecord /\ [][NextRecord]_vars

(***************************************************************************)
(* The chunked recording store.  Every operation runs in one readwrite     *)
(* transaction and is one step.  Durations are whole milliseconds, sizes   *)
(* are bytes, and a chunk key `${questionId}:${chunkIndex}` is carried as  *)
(* the pair it spells.                                                     *)
(***************************************************************************)
MaxChunks == 3
NumStoreQuestions == 2
StoreQuestions == 1..NumStoreQuestions
ChunkBlobs == {[size |-> 1, type |-> ""], [size |-> 2, type |-> "audio/ogg"]}
DurationEstimates == {0, 10}
RecorderMimeTypes == {"audio/webm"}

InitStore ==
    /\ metadataStore = <<>>
    /\ chunkStore = <<>>
    /\ appendedChunks = [q \in StoreQuestions |-> <<>>]
    /\ NormIdle
    /\ MergeIdle
    /\ CalIdle
    /\ PostIdle
    /\ ReviewIdle
    /\ CoverageIdle
    /\ FieldsIdle
    /\ AgainIdle
    /\ CacheIdle
    /\ TranscribeIdle
    /\ RecordIdle

otherVarsOfStore == <<normVars, mergeVars, calVars, postVars, reviewVars, coverageVars, fieldVars,
                      againVars, cacheVars, transcribeVars, recordVars>>

createChunkKey(questionId, chunkIndex) == <<questionId, chunkIndex>>

\* objectStore.get(key): the row, or undefined
storeGet(store, key) == IF key \in DOMAIN store THEN Obj(store[key]) ELSE Undef

\* objectStore.put(row) under the row's key
storePut(store, key, row) == (key :> row) @@ store

\* objectStore.delete(key)
storeDelete(store, key) == [k \in DOMAIN store \ {key} |-> store[k]]

isMetadataRow(value) ==
    /\ value.t = "object"
    /\ value.v.questionId > 0
    /\ value.v.createdAt # ""
    /\ value.v.mimeType # ""
    /\ value.v.totalBytes >= 0
    /\ value.v.durationMs >= 0
    /\ value.v.chunkCount >= 0
    /\ value.v.updatedAt # ""

\* the keys the byQuestionId index holds for a question
chunkKeysOf(store, questionId) == {k \in DOMAIN store : store[k].questionId = questionId}

\* variant that enumerates no key
deleteNoChunks(store, questionId) == store

deleteChunksByQuestionId(store, questionId) ==
    [k \in DOMAIN store \ chunkKeysOf(store, questionId) |-> store[k]]

InitializeInterviewRecording(input) ==
    /\ chunkStore' = deleteChunksByQuestionId(chunkStore, input.questionId)
    /\ metadataStore' = storePut(metadataStore, input.questionId,
                                 [questionId |-> input.questionId,
                                  createdAt |-> input.createdAt,
                                  mimeType |-> input.mimeType,
                                  totalBytes |-> 0,
                                  durationMs |-> 0,
                                  chunkCount |-> 0,
                                  updatedAt |-> input.createdAt])
    /\ appendedChunks' = [appendedChunks EXCEPT ![input.questionId] = <<>>]
    /\ UNCHANGED otherVarsOfStore

\* the metadata appendInterviewRecordingChunk starts from
metadataForAppend(existingMetadata, input) ==
    IF isMetadataRow(existingMetadata)
    THEN existingMetadata.v
    ELSE [questionId |-> input.questionId,
          createdAt |-> "now",
          mimeType |-> input.fallbackMimeType,
          totalBytes |-> 0,
          durationMs |-> 0,
          chunkCount |-> 0,
          updatedAt |-> "now"]

appendedMetadata(metadata, input) ==
    [metadata EXCEPT
        !.chunkCount = @ + 1,
        !.totalBytes = @ + input.chunk.size,
        !.durationMs = Max(@, input.durationMsEstimate),
        !.mimeType = IF input.chunk.type # "" THEN input.chunk.type
                     ELSE IF @ # "" THEN @ ELSE input.fallbackMimeType,
        !.updatedAt = "now"]

AppendInterviewRecordingChunk(input) ==
    LET metadata == metadataForAppend(storeGet(metadataStore, input.questionId), input)
        chunkIndex == metadata.chunkCount
    IN  /\ chunkIndex < MaxChunks
        /\ chunkStore' = storePut(chunkStore, createChunkKey(input.questionId, chunkIndex),
                                  [key |-> createChunkKey(input.questionId, chunkIndex),
                                   questionId |-> input.questionId,
                                   index |-> chunkIndex,
                                   blob |-> input.chunk])
        /\ metadataStore' = storePut(metadataStore, input.questionId,
                                     appendedMetadata(metadata, input))
        /\ appendedChunks' = [appendedChunks EXCEPT
                                 ![input.questionId] = Append(@, input.chunk)]
        /\ UNCHANGED otherVarsOfStore

FinalizeInterviewRecording(questionId, durationMsEstimate, fallbackMimeType) ==
    LET existingMetadata == storeGet(metadataStore, questionId)
    IN  /\ metadataStore' =
               IF isMetadataRow(existingMetadata)
               THEN storePut(metadataStore, questionId,
                             [existingMetadata.v EXCEPT
                                 !.durationMs = Max(@, durationMsEstimate),
                                 !.mimeType = IF @ # "" THEN @ ELSE fallbackMimeType,
                                 !.updatedAt = "now"])
               ELSE metadataStore
        /\ UNCHANGED <<chunkStore, appendedChunks>>
        /\ UNCHANGED otherVarsOfStore

DeleteInterviewRecording(questionId) ==
    /\ chunkStore' = deleteChunksByQuestionId(chunkStore, questionId)
    /\ metadataStore' = storeDelete(metadataStore, questionId)
    /\ appendedChunks' = [appendedChunks EXCEPT ![questionId] = <<>>]
    /\ UNCHANGED otherVarsOfStore

InitializeInputs(questionId) ==
    {[questionId |-> questionId, createdAt |-> "created", mimeType |-> m] :
        m \in RecorderMimeTypes}

AppendInputs(questionId) ==
    {[questionId |-> questionId, chunk |-> c, durationMsEstimate |-> d, fallbackMimeType |-> m] :
        c \in ChunkBlobs, d \in DurationEstimates, m \in RecorderMimeTypes}

InitializeOn(questionId) ==
    \E input \in InitializeInputs(questionId) : InitializeInterviewRecording(input)

AppendOn(questionId) ==
    \E input \in AppendInputs(questionId) : AppendInterviewRecordingChunk(input)

FinalizeOn(questionId) ==
    \E d \in DurationEstimates, m \in RecorderMimeTypes :
        FinalizeInterviewRecording(questionId, d, m)

NextStore ==
    \/ \E questionId \in StoreQuestions : InitializeOn(questionId)
    \/ \E questionId \in StoreQuestions : AppendOn(questionId)
    \/ \E questionId \in StoreQuestions : FinalizeOn(questionId)
    \/ \E questionId \in StoreQuestions : DeleteInterviewRecording(questionId)

SpecStore == InitStore /\ [][NextStore]_vars

(***************************************************************************)
(* Claims.                                                                 *)
(***************************************************************************)
Ctx == normalizedContextFromRequest(requestBody)

Returned == pc \in {"done", "mockDone"}

reportDimensions == report.v.dimensions.v

normalizedDimensions == normalized.v.dimensions.v

payloadCandidates == sourceDimensionsOf(payload)

\* the candidate normalizeModernReport hands to normalizeDimension for descriptor i
candidateOf(sourceReport, i) ==
    sourceByIdGet(sourceDimensionsOf(sourceReport), Ctx.dimensions[i].key)

\* the first pass went straight to normalizeModernReport(payload, context)
FirstPassIsModern ==
    /\ pc \in {"normalized", "done"}
    /\ isRecord(payload)
    /\ ~isLegacyReportResponseBody(payload)

\* C1: for a non-empty rubric the returned Scorecard has exactly one Dimension
\* Assessment per rubric descriptor, in descriptor order, and dimensions[i].id
\* is the key of the i-th descriptor.
C1_OneAssessmentPerDescriptor ==
    (pc = "done" /\ Len(requestBody.rubric) > 0) =>
        /\ Len(reportDimensions) = Len(requestBody.rubric)
        /\ \A i \in 1..Len(requestBody.rubric) :
               reportDimensions[i].v.id.v = requestBody.rubric[i].key

\* C1 witness: a payload whose two candidates come in the opposite order of the
\* rubric's descriptors has been normalized
C1_Witness ==
    /\ pc = "done"
    /\ Len(requestBody.rubric) = 2
    /\ requestBody.rubric[1].key = "collaboration"
    /\ requestBody.rubric[2].key = "problemSolving"
    /\ Len(payloadCandidates) = 2
    /\ toNormalizedString(Get(payloadCandidates[1], "id"), "") = "problemSolving"
    /\ toNormalizedString(Get(payloadCandidates[2], "id"), "") = "collaboration"

isScorecard(value) ==
    /\ value.t = "object"
    /\ value.v.overallRecommendation.t = "string"
    /\ value.v.overallRecommendation.v \in RECOMMENDATIONS
    /\ value.v.dimensions.t = "array"
    /\ \A i \in 1..Len(value.v.dimensions.v) : value.v.dimensions.v[i].t = "object"

C3_EvidenceCitesKnownSegments ==
    pc = "done" =>
        \A i \in 1..Len(reportDimensions) :
            \A k \in 1..Len(reportDimensions[i].v.evidence.v) :
                \E n \in 1..Len(requestBody.segments) :
                    requestBody.segments[n].id = reportDimensions[i].v.evidence.v[k].v.segmentId.v

\* C3 witness: the payload's candidate for a rubric dimension cited a segment
\* id that no segment of the request has, and the request has segments
C3_Witness ==
    /\ pc = "done"
    /\ Len(requestBody.segments) >= 1
    /\ \E i \in 1..Len(Ctx.dimensions) :
           LET evidence == Get(candidateOf(payload, i), "evidence") IN
           /\ evidence.t = "array"
           /\ \E k \in 1..Len(evidence.v) :
                  toNormalizedString(Get(evidence.v[k], "segmentId"), "") = "zz"
           /\ Len(reportDimensions[i].v.evidence.v) >= 1

inSeq(x, seq) == \E i \in 1..Len(seq) : seq[i] = x

\* s is in byDimension[d].segmentIds exactly when d is in bySegment[s].dimensions
coverageMapAgrees(coverageMap) ==
    LET byDimension == coverageMap.byDimension
        bySegment == coverageMap.bySegment
    IN /\ \A d \in DOMAIN byDimension :
              \A k \in 1..Len(byDimension[d].segmentIds) :
                  /\ byDimension[d].segmentIds[k] \in DOMAIN bySegment
                  /\ inSeq(d, bySegment[byDimension[d].segmentIds[k]].dimensions)
       /\ \A s \in DOMAIN bySegment :
              \A k \in 1..Len(bySegment[s].dimensions) :
                  /\ bySegment[s].dimensions[k] \in DOMAIN byDimension
                  /\ inSeq(s, byDimension[bySegment[s].dimensions[k]].segmentIds)

uniqueKeys(rubric) ==
    \A i \in 1..Len(rubric) : \A j \in 1..Len(rubric) : rubric[i].key = rubric[j].key => i = j

\* C4 as stated: in every Scorecard of the normalizer or the mock generator, for
\* any rubric, s is in byDimension[d].segmentIds iff d is in bySegment[s].dimensions.
C4_CoverageMapAgrees ==
    /\ pc \in {"normalized", "done"} => coverageMapAgrees(normalized.v.coverageMap)
    /\ Returned => coverageMapAgrees(report.v.coverageMap)

\* C4 amended: for a rubric whose keys are pairwise different, s is in
\* byDimension[d].segmentIds iff d is in bySegment[s].dimensions, in every
\* Scorecard of the normalizer or the mock generator.
C4_CoverageMapAgreesForUniqueKeys ==
    uniqueKeys(requestBody.rubric) =>
        /\ pc \in {"normalized", "done"} => coverageMapAgrees(normalized.v.coverageMap)
        /\ Returned => coverageMapAgrees(report.v.coverageMap)

\* C4 witness: two dimensions with different keys cite the same segment
C4_Witness ==
    /\ pc = "done"
    /\ uniqueKeys(requestBody.rubric)
    /\ \E s \in DOMAIN report.v.coverageMap.bySegment :
           Len(report.v.coverageMap.bySegment[s].dimensions) >= 2
    /\ \E d \in DOMAIN report.v.coverageMap.byDimension :
           Len(report.v.coverageMap.byDimension[d].segmentIds) = 1

\* C5: mergeIntervals is idempotent: merging the output of a merge again, with
\* the same tolerance, returns that output unchanged (report.ts and coverage.ts).
C5_MergeIdempotent ==
    /\ mergePc \in {"remerged", "covMerged", "done"} => remerged = merged
    /\ mergePc = "done" => covRemerged = covMerged

\* C5 witness: a merge that absorbed an interval has been merged again
C5_Witness ==
    /\ mergePc = "done"
    /\ Len(merged) >= 2
    /\ Len(merged) < Len(intervals)
    /\ Len(covMerged) < Len(intervals)

\* C6: lowering one observed dimension's score never raises the recommendation's rank
C6_MonotoneInScore ==
    calPc = "lowered" => recommendationRank(calAltRec) <= recommendationRank(calRec)

\* C6 witness: a lowered score moved the recommendation to a strictly lower rank
C6_Witness ==
    /\ calPc = "lowered"
    /\ recommendationRank(calAltRec) < recommendationRank(calRec)
    /\ Len(calDims) >= 2

\* C7: changing one observed dimension to not-observed never raises the
\* recommendation's rank
C7_MonotoneInObservation ==
    calPc = "flipped" => recommendationRank(calAltRec) <= recommendationRank(calRec)

\* C7 witness: marking a core dimension not observed lowered the recommendation
C7_Witness ==
    /\ calPc = "flipped"
    /\ Len(calDims) = 2
    /\ recommendationRank(calAltRec) < recommendationRank(calRec)

rankOf(scorecard) == recommendationRank(scorecard.v.overallRecommendation.v)

someCoreNotObserved(dimensions) ==
    \E i \in 1..Len(dimensions) :
        /\ dimensions[i].v.id.v \in {"clarity", "problemSolving", "ownership"}
        /\ dimensions[i].v.notObserved.v

twoScoredAtMostTwo(dimensions) ==
    \E i \in 1..Len(dimensions) : \E j \in 1..Len(dimensions) :
        /\ i # j
        /\ dimensions[i].v.score.t = "number" /\ dimensions[i].v.score.v <= 200
        /\ dimensions[j].v.score.t = "number" /\ dimensions[j].v.score.v <= 200

\* C8: in a returned Scorecard, a core dimension that is not observed or a mean
\* coverage ratio below 0.35 keeps overallRecommendation at LeanHire or lower,
\* and two dimensions scored 2 or lower keep it at LeanNo or lower, whatever
\* overallRecommendation the payload carried.
C8_CapsHold ==
    Returned =>
        /\ (someCoreNotObserved(reportDimensions) \/ FracLT(coverageRatioOf(reportDimensions), 35))
               => rankOf(report) <= recommendationRank("LeanHire")
        /\ twoScoredAtMostTwo(reportDimensions) => rankOf(report) <= recommendationRank("LeanNo")

\* the rank the weighted score of the returned dimensions gives before any cap
uncappedRank ==
    LET observed == observedDimensions(reportDimensions)
        totals == weightedTotals(observed, Len(observed))
    IN IF Len(observed) = 0 \/ totals.weight.q = 0 THEN 0
       ELSE recommendationRank(baseRecommendationFromWeightedScore(
                [num |-> totals.weightedScore, den |-> totals.weight]))

\* C8 witness: the payload said StrongHire, two dimensions are scored 2 or lower,
\* and the weighted score alone would have given more than LeanNo
C8_Witness ==
    /\ pc = "done"
    /\ Get(payload, "overallRecommendation").t = "string"
    /\ twoScoredAtMostTwo(reportDimensions)
    /\ uncappedRank > recommendationRank("LeanNo")
    /\ rankOf(report) = recommendationRank("LeanNo")

scoreNullIffNotObserved(assessment) ==
    (assessment.v.score.t = "null") <=> assessment.v.notObserved.v

\* score is null iff the dimension is not observed or the candidate's score
\* converts to no finite number; a dimension that is not observed has no score
scoreFollowsCandidate(candidate, assessment) ==
    /\ assessment.v.notObserved.v => assessment.v.score.t = "null"
    /\ (assessment.v.score.t = "null") <=>
           (assessment.v.notObserved.v \/ toFiniteNumber(Get(candidate, "score")).t = "null")

\* C9 as stated: for any candidate object, the Dimension Assessment of
\* normalizeDimension has score null iff notObserved is true.
C9_ScoreNullIffNotObserved ==
    /\ FirstPassIsModern =>
           \A i \in 1..Len(Ctx.dimensions) :
               isRecord(candidateOf(payload, i)) => scoreNullIffNotObserved(normalizedDimensions[i])
    /\ pc = "done" =>
           \A i \in 1..Len(Ctx.dimensions) :
               isRecord(candidateOf(normalized, i)) => scoreNullIffNotObserved(reportDimensions[i])

\* C9 amended: for any candidate object, notObserved true gives score null, and
\* score is null iff notObserved is true or the candidate's score is not a
\* finite number (or a string that converts to one).
C9_ScoreNullIffNotObservedOrNoScore ==
    /\ FirstPassIsModern =>
           \A i \in 1..Len(Ctx.dimensions) :
               isRecord(candidateOf(payload, i)) =>
                   scoreFollowsCandidate(candidateOf(payload, i), normalizedDimensions[i])
    /\ pc = "done" =>
           \A i \in 1..Len(Ctx.dimensions) :
               isRecord(candidateOf(normalized, i)) =>
                   scoreFollowsCandidate(candidateOf(normalized, i), reportDimensions[i])

\* C9 witness: a candidate object with notObserved true and a score of its own
\* was normalized to a dimension with score null
C9_Witness ==
    /\ pc = "normalized"
    /\ FirstPassIsModern
    /\ \E i \in 1..Len(Ctx.dimensions) :
           /\ isRecord(candidateOf(payload, i))
           /\ Get(candidateOf(payload, i), "notObserved").t = "boolean"
           /\ Get(candidateOf(payload, i), "notObserved").v
           /\ Get(candidateOf(payload, i), "score").t = "number"
           /\ normalizedDimensions[i].v.score.t = "null"

legacyItemMatches(item, key) == Get(item, "dimensionKey").v = key

\* C10: for a legacy payload, a rubric dimension whose key is the dimensionKey
\* of a legacy item has notObserved false and that item's score rounded and
\* clamped to 1..5; a rubric dimension with no such item has notObserved true
\* and score null.
C10_LegacyItemsBecomeDimensions ==
    (pc = "done" /\ isLegacyReportResponseBody(payload)) =>
        \A i \in 1..Len(requestBody.rubric) :
            LET legacyItems == legacyItemsOf(payload)
                key == requestBody.rubric[i].key
                assessment == reportDimensions[i]
            IN IF \E k \in 1..Len(legacyItems) : legacyItemMatches(legacyItems[k], key)
               THEN /\ ~assessment.v.notObserved.v
                    /\ assessment.v.score.t = "number"
                    /\ \E k \in 1..Len(legacyItems) :
                           /\ legacyItemMatches(legacyItems[k], key)
                           /\ assessment.v.score.v =
                                  clamp(MathRound(Get(legacyItems[k], "score").v), 100, 500)
               ELSE /\ assessment.v.notObserved.v
                    /\ assessment.v.score.t = "null"

\* C10 witness: a legacy item with score 4.5 became a dimension with score 5,
\* and a rubric dimension without an item became not observed
C10_Witness ==
    /\ pc = "done"
    /\ isLegacyReportResponseBody(payload)
    /\ Len(requestBody.rubric) = 2
    /\ Len(legacyItemsOf(payload)) = 1
    /\ Get(legacyItemsOf(payload)[1], "score").v = 450
    /\ reportDimensions[1].v.score.t = "number"
    /\ reportDimensions[1].v.score.v = 500
    /\ reportDimensions[2].v.notObserved.v

\* the mock layout: the last dimension is not observed (score null) exactly when
\* there are at least 3 dimensions, and the observed dimension at index i has
\* score [4,3,5,2][i mod 4]
mockLayout(dimensions) ==
    \A i \in 1..Len(dimensions) :
        LET isLast == Len(dimensions) >= 3 /\ i = Len(dimensions) IN
        /\ dimensions[i].v.notObserved.v = isLast
        /\ isLast => dimensions[i].v.score.t = "null"
        /\ ~isLast => /\ dimensions[i].v.score.t = "number"
                      /\ dimensions[i].v.score.v = <<400, 300, 500, 200>>[((i - 1) % 4) + 1]

\* the payload is no object, so normalizeFromUnknown went to createMockReport
PayloadIsNoObject == ~isRecord(payload)

\* C11: createMockReport, and normalizeReportResponse on a payload that is no
\* object, return dimensions in the mock layout: the last one not observed iff
\* the rubric has at least 3 dimensions, no other one not observed, and every
\* observed one at index i scored [4,3,5,2][i mod 4].
C11_MockLayout ==
    /\ pc = "mockDone" => mockLayout(reportDimensions)
    /\ (pc = "done" /\ PayloadIsNoObject) => mockLayout(reportDimensions)

\* C11 witness: normalizeReportResponse returned the mock layout for a payload
\* that is a string and a rubric of 3 dimensions
C11_Witness ==
    /\ pc = "done"
    /\ payload.t = "string"
    /\ Len(requestBody.rubric) = 3
    /\ mockLayout(reportDimensions)
    /\ reportDimensions[3].v.notObserved.v

\* the part of C11 about createMockReport alone
MockReportHasMockLayout == pc = "mockDone" => mockLayout(reportDimensions)

\* the part of C11 about normalizeReportResponse, for rubric keys that are
\* pairwise different and have no surrounding blanks
trimmedKeys(rubric) == \A i \in 1..Len(rubric) : Trim(rubric[i].key) = rubric[i].key

MockLayoutSurvivesSecondPass ==
    (pc = "done" /\ PayloadIsNoObject /\ uniqueKeys(requestBody.rubric)
        /\ trimmedKeys(requestBody.rubric)) => mockLayout(reportDimensions)

\* the request passes every check of POST ahead of the mock decision
ValidPostRequest ==
    /\ isReportRequestBody(postRequest.json)
    /\ Len(requestBodyOf(postRequest.json).segments) > 0
    /\ Len(requestBodyOf(postRequest.json).rubric) > 0

NoApiKey == apiKey.t = "undefined" \/ apiKey.v = ""

\* the generation service answered with a content string that is no JSON
ContentFailsToParse ==
    /\ completion.fetched
    /\ completion.ok
    /\ extractCompletionContent(completion.payload).t = "string"
    /\ extractCompletionContent(completion.payload).v # ""
    /\ ~JSONParse(extractCompletionContent(completion.payload).v).ok

RespondedWithMock ==
    /\ postResponse.status = 200
    /\ postResponse.body = createMockReport(requestBodyOf(postRequest.json))

\* C12: a valid request is answered with the mock Scorecard, and with no error
\* response, when there is no API key, when ?mock=1 forces mock mode, or when
\* the content of the generation service fails to parse as JSON.
C12_MockWheneverNoContent ==
    (postPc = "responded" /\ ValidPostRequest
        /\ (NoApiKey \/ postRequest.mock \/ ContentFailsToParse)) => RespondedWithMock

\* C12 witness: a valid request with an API key and without ?mock=1 was
\* answered after the generation service returned content that is no JSON
C12_Witness ==
    /\ postPc = "responded"
    /\ ValidPostRequest
    /\ ~NoApiKey
    /\ ~postRequest.mock
    /\ ContentFailsToParse

\* the two cases of C12 that POST decides ahead of the generation service
MockWhenAbsentOrForced ==
    (postPc = "responded" /\ ValidPostRequest /\ (NoApiKey \/ postRequest.mock))
        => RespondedWithMock

\* content that parses to a value that is no object is answered with a 200
ParsedNonObjectIsNoError ==
    (postPc = "responded" /\ ValidPostRequest /\ ~NoApiKey /\ ~postRequest.mock
        /\ completion.fetched /\ completion.ok
        /\ extractCompletionContent(completion.payload).t = "string"
        /\ JSONParse(extractCompletionContent(completion.payload).v).ok
        /\ ~isRecord(JSONParse(extractCompletionContent(completion.payload).v).value))
        => postResponse.status = 200

\* the reply of question q passed every check of generateReport up to the
\* post-condition check, which finds invalid evidence
PostConditionFails(q) ==
    LET reply == reportFetchByQuestionId[q].reply
        segments == transcriptions[q].v
    IN /\ reportFetchByQuestionId[q].state = "settled"
       /\ reply.fetched
       /\ reply.ok
       /\ isReportResponseBody(reply.payload)
       /\ ~toModernReportResponseThrows(reply.payload, reviewOptions(segments))
       /\ hasInvalidEvidence(toModernReportResponse(reply.payload, reviewOptions(segments)),
                             segments)

\* C13: when the post-condition check of generateReport finds invalid evidence
\* in the normalized report of question q, the handler ends without storing
\* anything: every stored report is unchanged, an error message is recorded for
\* q, and q's loading flag is cleared, so that the Generate Report button of q
\* is enabled again.
C13_DiscardIsRecoverable ==
    [][\A q \in Questions :
           (FinishGenerateReport(q) /\ PostConditionFails(q)) =>
               /\ reports' = reports
               /\ reportErrorByQuestionId'[q] = "Report references missing transcript segments."
               /\ ~reportLoadingByQuestionId'[q]
               /\ reportFetchByQuestionId'[q] = NoFetch
               /\ transcriptions'[q].t # "undefined"]_vars

\* C13 witness: a response for a question that has a stored report was dropped
\* by the post-condition check while the other question has a stored report too
C13_Witness ==
    \E q \in Questions :
        /\ reportErrorByQuestionId[q] = "Report references missing transcript segments."
        /\ ~reportLoadingByQuestionId[q]
        /\ reports[q].t = "object"
        /\ \E other \in Questions \ {q} : reports[other].t = "object"

\* strong iff relevance >= 0.75, medium iff 0.45 <= relevance < 0.75, weak iff
\* relevance < 0.45, for every evidence entry of every dimension
strengthIsBandOfRelevance(scorecard) ==
    \A i \in 1..Len(scorecard.v.dimensions.v) :
        \A k \in 1..Len(scorecard.v.dimensions.v[i].v.evidence.v) :
            LET entry == scorecard.v.dimensions.v[i].v.evidence.v[k].v IN
            /\ (entry.strength.v = "strong") <=> (entry.relevance.v >= 75)
            /\ (entry.strength.v = "medium") <=> (entry.relevance.v >= 45 /\ entry.relevance.v < 75)
            /\ (entry.strength.v = "weak") <=> (entry.relevance.v < 45)

\* C14: in every Scorecard of the normalizer (modern, legacy or generic input)
\* and of the mock generator, the strength of each evidence entry is the band
\* of its relevance.
C14_StrengthIsBandOfRelevance ==
    /\ pc \in {"normalized", "done"} => strengthIsBandOfRelevance(normalized)
    /\ Returned => strengthIsBandOfRelevance(report)

\* C14 witness: a candidate entry that gave a confidence of 50 and no strength
\* was returned with relevance 0.5 and strength medium
C14_Witness ==
    /\ pc = "done"
    /\ \E i \in 1..Len(reportDimensions) :
           \E k \in 1..Len(reportDimensions[i].v.evidence.v) :
               /\ reportDimensions[i].v.evidence.v[k].v.relevance.v = 50
               /\ reportDimensions[i].v.evidence.v[k].v.strength.v = "medium"

\* the entries for which the normalizer derives the strength from the relevance
\* or the relevance from the strength: the band holds when the payload is
\* modern or generic and no candidate entry gives both
NoEntryGivesBoth ==
    \A i \in 1..Len(payloadCandidates) :
        Get(payloadCandidates[i], "evidence").t = "array" =>
            \A k \in 1..Len(Get(payloadCandidates[i], "evidence").v) :
                LET entry == Get(payloadCandidates[i], "evidence").v[k] IN
                ~(/\ toStrength(Get(entry, "strength")).t # "null"
                  /\ \/ toRelevance(Get(entry, "relevance")).t # "null"
                     \/ toRelevance(Get(entry, "confidence")).t # "null")

DerivedStrengthIsBand ==
    (pc = "done" /\ FirstPassIsModern /\ NoEntryGivesBoth) => strengthIsBandOfRelevance(report)

(***************************************************************************)
(* C15: the reference rule, in exact arithmetic.                           *)
(***************************************************************************)
referenceWeight(key) ==
    IF key = "problemSolving" THEN 35 ELSE IF key = "ownership" THEN 25 ELSE 20

referenceObserved(dimension) ==
    ~dimension.v.notObserved.v /\ dimension.v.score.t = "number"

RECURSIVE referenceSum(_, _, _)
\* sum over the observed dimensions among the first k of weight * score
\* (byScore) or of weight, the weights in hundredths, the scores whole
referenceSum(dimensions, k, byScore) ==
    IF k = 0 THEN 0
    ELSE referenceSum(dimensions, k - 1, byScore)
         + (IF referenceObserved(dimensions[k])
            THEN referenceWeight(dimensions[k].v.id.v)
                 * (IF byScore THEN dimensions[k].v.score.v \div 100 ELSE 1)
            ELSE 0)

\* the bucket of the weighted average scoreSum / weightSum
referenceBucketRank(scoreSum, weightSum) ==
    IF 10 * scoreSum >= 45 * weightSum THEN 4
    ELSE IF 10 * scoreSum >= 38 * weightSum THEN 3
    ELSE IF 10 * scoreSum >= 32 * weightSum THEN 2
    ELSE IF 10 * scoreSum >= 25 * weightSum THEN 1
    ELSE 0

RECURSIVE referenceCited(_, _)
\* sum of cited / 2 over the first k dimensions, in halves: every assessment
\* of SpecCal has 2 available segments
referenceCited(dimensions, k) ==
    IF k = 0 THEN 0
    ELSE referenceCited(dimensions, k - 1)
         + dimensions[k].v.evidenceCoverage.v.citedSegmentCount.v \div 100

MinRank(a, b) == IF a <= b THEN a ELSE b

referenceBucketOf(dimensions) ==
    referenceBucketRank(referenceSum(dimensions, Len(dimensions), TRUE),
                        referenceSum(dimensions, Len(dimensions), FALSE))

referenceCapsRank(dimensions) ==
    LET n == Len(dimensions)
        coreCap == IF \E i \in 1..n : /\ dimensions[i].v.id.v \in {"clarity", "problemSolving", "ownership"}
                                      /\ ~referenceObserved(dimensions[i])
                   THEN 2 ELSE 4
        coverageCap == IF 100 * referenceCited(dimensions, n) < 35 * 2 * n THEN 2 ELSE 4
        lowCap == IF Cardinality({i \in 1..n : /\ dimensions[i].v.score.t = "number"
                                               /\ dimensions[i].v.score.v <= 200}) >= 2
                  THEN 1 ELSE 4
    IN MinRank(coreCap, MinRank(coverageCap, lowCap))

referenceRank(dimensions) ==
    IF \A i \in 1..Len(dimensions) : ~referenceObserved(dimensions[i])
    THEN 1
    ELSE MinRank(referenceBucketOf(dimensions), referenceCapsRank(dimensions))

\* C15: for every list of assessments, deriveCalibratedRecommendation returns
\* LeanNo when no dimension is observed and otherwise the lowest in rank of the
\* bucket of the weighted average of the observed scores (weights 0.35 for
\* problemSolving, 0.25 for ownership, 0.20 for any other key; >= 4.5
\* StrongHire, >= 3.8 Hire, >= 3.2 LeanHire, >= 2.5 LeanNo, else No), LeanHire
\* if a core dimension is not observed, LeanHire if the mean coverage ratio over
\* all dimensions is below 0.35, and LeanNo if at least 2 dimensions score 2 or
\* lower; the result never ranks above the bucket.
C15_EqualsReferenceRule ==
    calPc # "input" =>
        /\ recommendationRank(calRec) = referenceRank(calDims)
        /\ (\E i \in 1..Len(calDims) : referenceObserved(calDims[i]))
               => recommendationRank(calRec) <= referenceBucketOf(calDims)

\* C15 case: three observed dimensions whose weighted average is 2.5 exactly
\* (0.35 * 3 + 0.25 * 3 + 0.2 * 1 = 2.0, over 0.8), every one citing a segment,
\* so that no cap applies and the bucket decides
C15_Witness ==
    /\ calPc = "calibrated"
    /\ Len(calDims) = 3
    /\ \A i \in 1..3 : referenceObserved(calDims[i])
    /\ 10 * referenceSum(calDims, 3, TRUE) = 25 * referenceSum(calDims, 3, FALSE)
    /\ referenceCapsRank(calDims) = 4

\* away from the thresholds the code and the reference rule agree: whenever the
\* exact weighted average is none of 4.5, 3.8, 3.2, 2.5
AgreesOffThresholds ==
    (/\ calPc # "input"
     /\ \A t \in {45, 38, 32, 25} :
            10 * referenceSum(calDims, Len(calDims), TRUE)
                # t * referenceSum(calDims, Len(calDims), FALSE))
        => recommendationRank(calRec) = referenceRank(calDims)

\* the result never ranks above the bucket the code itself computes, nor above
\* the reference bucket
NeverAboveBucket ==
    (calPc # "input" /\ \E i \in 1..Len(calDims) : referenceObserved(calDims[i]))
        => recommendationRank(calRec) <= referenceBucketOf(calDims)

(***************************************************************************)
(* C16: shape of the output of mergeIntervals.                             *)
(***************************************************************************)
sortedByStart(out) ==
    \A i \in 1..(Len(out) - 1) : out[i].start <= out[i + 1].start

separatedByMoreThan(out, eps) ==
    \A i \in 1..(Len(out) - 1) : out[i + 1].start - out[i].end > eps

holdsInterval(outer, inner) ==
    outer.start <= inner.start /\ inner.end <= outer.end

\* two inputs, the second starting no earlier than the first, whose gap is
\* at most eps lie in one output interval
closeInputsShareOutput(inputs, out, eps) ==
    \A i, j \in 1..Len(inputs) :
        (inputs[i].start <= inputs[j].start /\ inputs[j].start - inputs[i].end <= eps)
            => \E k \in 1..Len(out) : /\ holdsInterval(out[k], inputs[i])
                                      /\ holdsInterval(out[k], inputs[j])

\* the stretch from t to t + 1 lies in an input, or in a gap of at most eps
\* between the end of one input and the start of another
inputOrBridgedGap(inputs, eps, t) ==
    \/ \E i \in 1..Len(inputs) : inputs[i].start <= t /\ t + 1 <= inputs[i].end
    \/ \E i, j \in 1..Len(inputs) :
           /\ inputs[i].end <= t
           /\ t + 1 <= inputs[j].start
           /\ inputs[j].start - inputs[i].end <= eps

\* the outputs cover the inputs and the bridged gaps and nothing else
coversInputsAndBridgedGaps(inputs, out, eps) ==
    /\ \A i \in 1..Len(inputs) : \E k \in 1..Len(out) : holdsInterval(out[k], inputs[i])
    /\ \A k \in 1..Len(out) :
           /\ \E i \in 1..Len(inputs) : inputs[i].start = out[k].start
           /\ \E i \in 1..Len(inputs) : inputs[i].end = out[k].end
           /\ \A t \in out[k].start..(out[k].end - 1) : inputOrBridgedGap(inputs, eps, t)

mergedShape(inputs, out, eps) ==
    /\ sortedByStart(out)
    /\ separatedByMoreThan(out, eps)
    /\ closeInputsShareOutput(inputs, out, eps)
    /\ coversInputsAndBridgedGaps(inputs, out, eps)

isExampleInput ==
    /\ Len(intervals) = 2
    /\ {<<intervals[i].start, intervals[i].end>> : i \in 1..2} = {ExampleBounds[1], ExampleBounds[2]}
    /\ epsilonSeconds = 5

\* C16: for input intervals with start <= end, the output of mergeIntervals
\* (report.ts and coverage.ts) is sorted by start, consecutive output intervals
\* are more than epsilon apart, two inputs whose gap is at most epsilon lie in
\* the same output interval ([0,1] and [1.02,2] with epsilon 0.05 give the single
\* interval [0,2]), and the outputs cover exactly the inputs and the bridged gaps.
C16_MergedShape ==
    /\ mergePc # "input" =>
           /\ mergedShape(intervals, merged, epsilonSeconds)
           /\ isExampleInput => merged = <<[start |-> 0, end |-> 200]>>
    /\ mergePc \in {"covMerged", "done"} =>
           /\ mergedShape(intervals, covMerged, epsilonSeconds)
           /\ isExampleInput =>
                  /\ Len(covMerged) = 1
                  /\ covMerged[1].start = 0 /\ covMerged[1].end = 200

\* C16 case: the example has been merged by both functions
C16_Witness ==
    /\ mergePc = "done"
    /\ isExampleInput
    /\ intervals[1].start = 102
    /\ Len(merged) = 1
    /\ Len(covMerged) = 1

\* three inputs are merged into two outputs, one gap bridged and one kept
BridgedAndKept ==
    /\ mergePc = "done"
    /\ Len(intervals) = 3
    /\ Len(merged) = 2
    /\ epsilonSeconds = 1
    /\ \E i, j \in 1..3 : intervals[j].start - intervals[i].end = 1

(***************************************************************************)
(* C17: segment ids of the merged intervals of buildCoverageModel.         *)
(***************************************************************************)
idsOf(interval) == {interval.segmentIds[j] : j \in 1..Len(interval.segmentIds)}

\* the raw intervals an output interval absorbed: those lying inside it
absorbedBy(raw, output) == {i \in 1..Len(raw) : holdsInterval(output, raw[i])}

carriesUnionOfAbsorbed(raw, out) ==
    \A k \in 1..Len(out) :
        /\ idsOf(out[k]) = UNION {idsOf(raw[i]) : i \in absorbedBy(raw, out[k])}
        /\ Cardinality(idsOf(out[k])) = Len(out[k].segmentIds)

\* every cited segment id is in exactly one output interval, which contains
\* the clamped range of the segment
citedOnceAndContained(raw, out) ==
    \A i \in 1..Len(raw) :
        /\ Cardinality({k \in 1..Len(out) : raw[i].segmentIds[1] \in idsOf(out[k])}) = 1
        /\ \A k \in 1..Len(out) :
               raw[i].segmentIds[1] \in idsOf(out[k]) => holdsInterval(out[k], raw[i])

\* C17: in the coverage model of the page each merged interval carries exactly
\* the union of the segment ids of the raw intervals it absorbed, every cited
\* segment id is in exactly one merged interval, that interval contains the
\* clamped time range of the segment, and the merge leaves the list of raw
\* intervals as it was built.
C17_MergedCarriesSegmentIds ==
    coveragePc \in {"model", "done"} =>
        /\ carriesUnionOfAbsorbed(rawIntervals.built, coverageModel.intervals)
        /\ citedOnceAndContained(rawIntervals.built, coverageModel.intervals)
        /\ rawIntervals.afterMerge = rawIntervals.built

\* C17 case: three cited segments, two of them merged into one interval that
\* carries both ids, the third in an interval of its own
C17_Witness ==
    /\ coveragePc = "model"
    /\ Len(rawIntervals.built) = 3
    /\ Len(coverageModel.intervals) = 2
    /\ \E k \in 1..2 : Len(coverageModel.intervals[k].segmentIds) = 2
    /\ \E k \in 1..2 : coverageModel.intervals[k].end > coverageModel.intervals[k].start

\* the merge with object identities returns the intervals of the merge without
MergeOnObjectsAgrees ==
    coveragePc \in {"model", "done"} =>
        coverageModel.intervals = coverageMergeIntervals(rawIntervals.built,
                                      IF coverageInput.epsilonSeconds.t = "undefined"
                                      THEN 5 ELSE coverageInput.epsilonSeconds.v)

\* C18: the duration that divides every coverage percentage is at least 1
\* second, for any segment list and any caller-supplied duration: both
\* deriveDurationSeconds return a value >= 1.
C18_DurationAtLeastOneSecond ==
    /\ coveragePc \in {"model", "done"} => coverageModel.durationSeconds >= 100
    /\ coveragePc = "done" => reportCoverage.durationSeconds >= 100

\* C18 case: no caller-supplied duration and the largest segment end lies
\* between 0 and 1 second; both functions have returned
C18_Witness ==
    /\ coveragePc = "done"
    /\ coverageInput.durationSeconds.t = "undefined"
    /\ Len(coverageInput.segments) > 0
    /\ maxSegmentEnd(coverageInput.segments, Len(coverageInput.segments)) = 50
    /\ coverageModel.durationSeconds = 50
    /\ reportCoverage.durationSeconds = 50

\* the duration is positive, and 1 second only replaces a largest end of 0
DurationIsPositive ==
    /\ coveragePc \in {"model", "done"} =>
           /\ coverageModel.durationSeconds > 0
           /\ (coverageInput.durationSeconds.t = "number" /\ coverageInput.durationSeconds.v > 0)
                  => coverageModel.durationSeconds = coverageInput.durationSeconds.v
    /\ coveragePc = "done" =>
           /\ reportCoverage.durationSeconds > 0
           /\ reportCoverage.durationSeconds < 100 =>
                  \E i \in 1..Len(coverageInput.segments) :
                      Max(coverageInput.segments[i].start, coverageInput.segments[i].end)
                          = reportCoverage.durationSeconds

(***************************************************************************)
(* C19, C20: evidence of the normalized dimensions.                        *)
(***************************************************************************)
evidenceOf(dimension) == dimension.v.evidence.v

hasDesiredMinimum(dimensions, segmentCount) ==
    \A i \in 1..Len(dimensions) :
        ~dimensions[i].v.notObserved.v => Len(evidenceOf(dimensions[i])) >= Min(2, segmentCount)

\* the entry normalizeEvidence pushes for a fallback segment
isBackFilled(entry) == entry.v.strength.v = "medium" /\ entry.v.relevance.v = 64

\* C19: for every dimension that is not marked not observed, the evidence list
\* normalizeEvidence returns has at least min(2, number of transcript segments)
\* entries, whatever the candidate evidence and the dimension index: missing
\* entries are back-filled from segments not yet cited, scanning cyclically from
\* the dimension index.
C19_DesiredMinimum ==
    /\ pc \in {"normalized", "done"} => hasDesiredMinimum(normalizedDimensions, Len(Ctx.segments))
    /\ pc = "done" => hasDesiredMinimum(reportDimensions, Len(Ctx.segments))

\* C19 case: two segments, and a dimension that is observed whose candidate
\* gave one valid entry and whose second entry is back-filled
C19_Witness ==
    /\ pc = "done"
    /\ Len(Ctx.segments) = 2
    /\ \E i \in 1..Len(normalizedDimensions) :
           /\ ~normalizedDimensions[i].v.notObserved.v
           /\ Len(evidenceOf(normalizedDimensions[i])) = 2
           /\ ~isBackFilled(evidenceOf(normalizedDimensions[i])[1])
           /\ isBackFilled(evidenceOf(normalizedDimensions[i])[2])

\* a dimension without any valid candidate entry gets the full minimum: the
\* shortfall needs an entry the candidate already cites
ShortOnlyBesideCandidateEntries ==
    pc \in {"normalized", "done"} =>
        \A i \in 1..Len(normalizedDimensions) :
            (/\ ~normalizedDimensions[i].v.notObserved.v
             /\ Len(evidenceOf(normalizedDimensions[i])) < Min(2, Len(Ctx.segments)))
                => /\ Len(evidenceOf(normalizedDimensions[i])) = 1
                   /\ ~isBackFilled(evidenceOf(normalizedDimensions[i])[1])

evidenceIds(dimension) ==
    [j \in 1..Len(evidenceOf(dimension)) |-> evidenceOf(dimension)[j].v.segmentId.v]

\* the segment ids the candidate for `key` cites, as normalizeEvidence reads them
candidateIds(sourceDimensions, key) ==
    LET evidence == Get(rawRecordOf(sourceByIdGet(sourceDimensions, key)), "evidence")
    IN IF evidence.t # "array" THEN <<>>
       ELSE [j \in 1..Len(evidence.v) |->
                IF isRecord(evidence.v[j])
                THEN toNormalizedString(Get(evidence.v[j], "segmentId"), "") ELSE ""]

firstIndexOf(ids, id) == CHOOSE j \in 1..Len(ids) : ids[j] = id /\ \A k \in 1..(j - 1) : ids[k] # id

\* entries the candidate cited come in the order of the candidate, and before
\* every entry that it did not cite
candidateOrderKept(ids, cited) ==
    \A p, q \in 1..Len(ids) :
        (p < q /\ (\E j \in 1..Len(cited) : cited[j] = ids[q]))
            => /\ \E j \in 1..Len(cited) : cited[j] = ids[p]
               /\ firstIndexOf(cited, ids[p]) < firstIndexOf(cited, ids[q])

evidenceWellFormed(sourceDimensions, dimensions, rubric) ==
    \A i \in 1..Len(dimensions) :
        /\ Len(evidenceOf(dimensions[i])) <= 4
        /\ \A p, q \in 1..Len(evidenceOf(dimensions[i])) :
               p # q => evidenceIds(dimensions[i])[p] # evidenceIds(dimensions[i])[q]
        /\ candidateOrderKept(evidenceIds(dimensions[i]),
                              candidateIds(sourceDimensions, rubric[i].key))
        /\ dimensions[i].v.evidenceCoverage.v.citedSegmentCount.v
               = 100 * Len(evidenceOf(dimensions[i]))
        /\ dimensions[i].v.evidenceCoverage.v.citedSegmentCount.v
               <= dimensions[i].v.evidenceCoverage.v.availableSegmentCount.v

payloadIsModern == isRecord(payload) /\ ~isLegacyReportResponseBody(payload)

\* C20: in every Dimension Assessment normalized with the context of
\* normalizeReportResponse the evidence list has at most 4 entries, no two
\* entries share a segmentId, the entries of the candidate keep their order
\* ahead of the back-filled ones, and citedSegmentCount is the number of entries
\* and at most availableSegmentCount.
C20_EvidenceWellFormed ==
    /\ (pc \in {"normalized", "done"} /\ payloadIsModern) =>
           evidenceWellFormed(sourceDimensionsOf(payload), normalizedDimensions, Ctx.dimensions)
    /\ pc = "done" =>
           evidenceWellFormed(normalizedDimensions, reportDimensions, Ctx.dimensions)

\* C20 case: the candidate cites five known segments, one of them twice, and an
\* unknown one; the first four known ones are kept in its order
C20_Witness ==
    /\ pc = "done"
    /\ Len(Ctx.segments) = 5
    /\ Len(reportDimensions) = 1
    /\ Len(sourceDimensionsOf(payload)) = 1
    /\ Len(candidateIds(sourceDimensionsOf(payload), Ctx.dimensions[1].key)) = 7
    /\ evidenceIds(normalizedDimensions[1]) = <<"s5", "s4", "s3", "s2">>
    /\ evidenceIds(reportDimensions[1]) = <<"s5", "s4", "s3", "s2">>

\* a candidate entry ahead of a back-filled one, with two segments
CandidateAheadOfBackFilled ==
    /\ pc = "done"
    /\ \E i \in 1..Len(reportDimensions) :
           /\ evidenceIds(reportDimensions[i]) = <<"s2", "s1">>
           /\ candidateIds(sourceDimensionsOf(payload), Ctx.dimensions[i].key) = <<"s2">>

(***************************************************************************)
(* C21: the level of the returned Scorecard.                               *)
(***************************************************************************)
\* the bucket of the weighted average scoreSum / weightSum, 0 for no weight
referenceLevelOf(scoreSum, weightSum) ==
    IF weightSum = 0 THEN "intern"
    ELSE IF 10 * scoreSum >= 42 * weightSum THEN "senior"
    ELSE IF 10 * scoreSum >= 33 * weightSum THEN "mid"
    ELSE IF 10 * scoreSum >= 26 * weightSum THEN "newgrad"
    ELSE "intern"

referenceLevel(dimensions) ==
    referenceLevelOf(referenceSum(dimensions, Len(dimensions), TRUE),
                     referenceSum(dimensions, Len(dimensions), FALSE))

\* the level the payload names, if it is one of the four
payloadLevel == toReportLevel(Get(Get(payload, "leveling"), "level"))

\* C21: in every Scorecard returned by the normalizer, leveling.level is the
\* bucket of the weighted average of the observed scores (senior >= 4.2,
\* mid >= 3.3, newgrad >= 2.6, else intern), whatever caps applied and whatever
\* the payload contains.
C21_LevelIsBucket ==
    pc = "done" => report.v.leveling.v.level.v = referenceLevel(reportDimensions)

\* C21 case: the payload names the level senior beside one observed score of
\* 2, and the returned Scorecard is leveled senior over an average of 2
C21_Witness ==
    /\ pc = "done"
    /\ payloadLevel = Str("senior")
    /\ \E i \in 1..Len(reportDimensions) : referenceObserved(reportDimensions[i])
    /\ referenceLevel(reportDimensions) = "intern"
    /\ report.v.leveling.v.level.v = "senior"

\* a payload that names no level of the four is leveled by the bucket of the
\* dimensions of the first pass, under the caps as well; the second pass keeps
\* that level whatever its own dimensions are
LevelIsBucketUnlessPayloadNamesIt ==
    (pc = "done" /\ payloadLevel = Null)
        => report.v.leveling.v.level.v = referenceLevel(normalizedDimensions)

\* and by the bucket of the returned dimensions when the two passes agree
LevelIsBucketOfStableDimensions ==
    (pc = "done" /\ payloadLevel = Null /\ normalizedDimensions = reportDimensions)
        => report.v.leveling.v.level.v = referenceLevel(reportDimensions)

\* the mock generator levels by the bucket
MockLevelIsBucket ==
    pc = "mockDone" => report.v.leveling.v.level.v = referenceLevel(reportDimensions)

(***************************************************************************)
(* C22: counts of the string lists.                                        *)
(***************************************************************************)
countWithin(list, lo, hi) == list.t = "array" /\ lo <= Len(list.v) /\ Len(list.v) <= hi

topLevelCounts(scorecard) ==
    /\ countWithin(scorecard.v.calibrationNotes, 2, 6)
    /\ countWithin(scorecard.v.decisionRationale, 3, 5)
    /\ countWithin(scorecard.v.keyStrengths, 3, 5)
    /\ countWithin(scorecard.v.keyRisks, 2, 4)
    /\ countWithin(scorecard.v.risks, 1, 6)
    /\ countWithin(scorecard.v.followUps, 1, 6)

dimensionCounts(dimension) ==
    /\ countWithin(dimension.v.missingSignals, 1, 4)
    /\ countWithin(dimension.v.observedSignals, 2, 4)
    /\ countWithin(dimension.v.concerns, 1, 3)
    /\ countWithin(dimension.v.observations, 2, 4)
    /\ countWithin(dimension.v.probes, 2, 3)

listCounts(scorecard) ==
    /\ topLevelCounts(scorecard)
    /\ \A i \in 1..Len(scorecard.v.dimensions.v) : dimensionCounts(scorecard.v.dimensions.v[i])

FirstPassListCounts ==
    (fieldsPc \in {"normalized", "done"} /\ Len(fieldsBody.rubric) > 0)
        => listCounts(fieldsNormalized)

\* for an empty rubric followUps has no fallback and is the one list that can
\* stay below its minimum
EmptyRubricMeetsOtherCounts ==
    (fieldsPc = "done" /\ Len(fieldsBody.rubric) = 0)
        => /\ countWithin(fieldsReport.v.calibrationNotes, 2, 6)
           /\ countWithin(fieldsReport.v.decisionRationale, 3, 5)
           /\ countWithin(fieldsReport.v.keyStrengths, 3, 5)
           /\ countWithin(fieldsReport.v.keyRisks, 2, 4)
           /\ countWithin(fieldsReport.v.risks, 1, 6)
           /\ countWithin(fieldsReport.v.followUps, 0, 6)

(***************************************************************************)
(* C23: two segments with one id.                                          *)
(***************************************************************************)
\* the segment list back to front: a Map built from it keeps, for every id,
\* the segment that comes first in the original list
backToFront(segments) == [i \in 1..Len(segments) |-> segments[Len(segments) + 1 - i]]

hasDuplicateIds(segments) ==
    \E i \in 1..Len(segments) : \E j \in 1..Len(segments) :
        i # j /\ segments[i].id = segments[j].id

\* C23: when two segments have the same id, every lookup by id resolves to the
\* first segment with that id, so the coverage map is the one computed from the
\* time ranges of the first occurrences.
C23_LookupResolvesToFirst ==
    (pc = "done" /\ Len(Ctx.segments) > 0)
        => report.v.coverageMap = createCoverageMap(reportDimensions, backToFront(Ctx.segments))

\* C23 case: s1 names [0, 1] and [3, 5]; a dimension cites s1 and s2 and is
\* covered 59.6 % (3..5 and 1.02..2 of 5 s), where the first s1 would give 40 %
C23_Witness ==
    /\ pc = "done"
    /\ hasDuplicateIds(Ctx.segments)
    /\ \E i \in 1..Len(reportDimensions) :
           /\ evidenceSegmentIds(reportDimensions[i]) = <<"s1", "s2">>
           /\ report.v.coverageMap.byDimension[reportDimensions[i].v.id.v].coveragePct = 5960
           /\ createCoverageMap(reportDimensions, backToFront(Ctx.segments))
                  .byDimension[reportDimensions[i].v.id.v].coveragePct = 4000

\* with ids that are all different the order of the segments plays no part
UniqueIdsResolveEitherWay ==
    (pc = "done" /\ Len(Ctx.segments) > 0 /\ ~hasDuplicateIds(Ctx.segments))
        => report.v.coverageMap = createCoverageMap(reportDimensions, backToFront(Ctx.segments))

\* the back-fill walks the list from the index of the dimension and skips an
\* id it has seen: for the first dimension it takes the first segment of an id
BackFillFromFrontTakesFirst ==
    \A n \in 1..Len(Ctx.segments) :
        LET picked == pickFallbackEvidenceSegments(Ctx, 0, n) IN
        \A k \in 1..Len(picked) :
            \E i \in 1..Len(Ctx.segments) :
                /\ Ctx.segments[i] = picked[k]
                /\ \A j \in 1..(i - 1) : Ctx.segments[j].id # picked[k].id

(***************************************************************************)
(* C24: buildCoverageModel for one dimension against the coverage map.     *)
(***************************************************************************)
\* the dimension the page filters by, when the report has it
activeDimensionIsReported ==
    /\ coverageInput.activeDimensionId.t = "string"
    /\ \E i \in 1..Len(coverageInput.dimensions) :
           coverageInput.dimensions[i].v.id.v = coverageInput.activeDimensionId.v

activeEntry == reportCoverage.coverageMap.byDimension[coverageInput.activeDimensionId.v]

\* the segment ids the intervals of the model carry
modelSegmentIds ==
    UNION {{coverageModel.intervals[i].segmentIds[j] :
               j \in 1..Len(coverageModel.intervals[i].segmentIds)} :
              i \in 1..Len(coverageModel.intervals)}

\* coveragePercent rounded to one decimal, in hundredths of a percent
modelPctRounded ==
    roundedPct(coverageModel.coveragePercent.num, 100 * coverageModel.coveragePercent.den)

computationsAgree ==
    /\ modelSegmentIds = {activeEntry.segmentIds[j] : j \in 1..Len(activeEntry.segmentIds)}
    /\ coverageModel.citedSegmentCount = Len(activeEntry.segmentIds)
    /\ modelPctRounded = activeEntry.coveragePct

\* C24: for the same Scorecard and segment list and no caller-supplied
\* duration, buildCoverageModel filtered to a dimension d reports the cited
\* segment set of coverageMap.byDimension[d].segmentIds and a coverage
\* percentage equal to byDimension[d].coveragePct after rounding to one decimal.
C24_CoverageComputationsAgree ==
    (/\ coveragePc = "done"
     /\ coverageInput.durationSeconds = Undef
     /\ activeDimensionIsReported)
        => computationsAgree

\* C24 case: the default tolerance, segments s1 = [0.52, 0] and s2 = [0, 0.5],
\* ownership citing s2: the page takes the duration 0.5 s from the segments as
\* transcribed and reports 100 %, the route takes 0.52 s from its normalized
\* segments and stores 96.2 %
C24_Witness ==
    /\ coveragePc = "done"
    /\ coverageInput.durationSeconds = Undef
    /\ coverageInput.epsilonSeconds = Undef
    /\ activeDimensionIsReported
    /\ coverageModel.durationSeconds = 50
    /\ reportCoverage.durationSeconds = 52
    /\ modelPctRounded = 10000
    /\ activeEntry.coveragePct = 9620

wellFormedSegments ==
    \A i \in 1..Len(coverageInput.segments) :
        /\ 0 <= coverageInput.segments[i].start
        /\ coverageInput.segments[i].start <= coverageInput.segments[i].end

\* the two agree whenever every segment has 0 <= start <= end and the page
\* keeps the default tolerance
AgreeOnWellFormedSegments ==
    (/\ coveragePc = "done"
     /\ coverageInput.durationSeconds = Undef
     /\ coverageInput.epsilonSeconds = Undef
     /\ activeDimensionIsReported
     /\ wellFormedSegments)
        => computationsAgree

\* the cited segments agree for every segment list and tolerance
CitedSegmentsAgree ==
    (coveragePc = "done" /\ activeDimensionIsReported)
        => /\ modelSegmentIds = {activeEntry.segmentIds[j] : j \in 1..Len(activeEntry.segmentIds)}
           /\ coverageModel.citedSegmentCount = Len(activeEntry.segmentIds)

\* a number of the model that is a whole number between lo and hi
wholeWithin(value, lo, hi) ==
    /\ value.t = "number"
    /\ value.v % 100 = 0
    /\ value.v >= 100 * lo
    /\ value.v <= 100 * hi

\* a number of the model between 0 and 1
withinUnit(value) == value.t = "number" /\ value.v >= 0 /\ value.v <= 100

dimensionRanges(dimension) ==
    /\ dimension.v.score.t = "null" \/ wholeWithin(dimension.v.score, 1, 5)
    /\ wholeWithin(dimension.v.confidence, 0, 100)
    /\ withinUnit(dimension.v.evidenceQuality)
    /\ withinUnit(dimension.v.consistency)
    /\ wholeWithin(dimension.v.anchorAlignment.v.chosenLevel, 1, 5)
    /\ \A j \in 1..Len(dimension.v.evidence.v) :
           withinUnit(dimension.v.evidence.v[j].v.relevance)

coverageRanges(coverageMap) ==
    \A id \in DOMAIN coverageMap.byDimension :
        /\ coverageMap.byDimension[id].coveragePct >= 0
        /\ coverageMap.byDimension[id].coveragePct <= 10000

segmentRanges(segments) ==
    \A i \in 1..Len(segments) : 0 <= segments[i].start /\ segments[i].start <= segments[i].end

valueRanges(scorecard) ==
    /\ \A i \in 1..Len(scorecard.v.dimensions.v) : dimensionRanges(scorecard.v.dimensions.v[i])
    /\ coverageRanges(scorecard.v.coverageMap)

\* C25: every normalized Scorecard stays inside its value ranges: each score is
\* null or a whole number in 1..5, confidence a whole number in 0..100,
\* evidenceQuality, consistency and every relevance in [0, 1], chosenLevel in
\* 1..5, every coveragePct in [0, 100], and every normalized segment has
\* 0 <= start <= end
C25_ValueRanges ==
    /\ fieldsPc = "done" => valueRanges(fieldsReport)
    /\ segmentRanges(normalizedContextFromRequest(fieldsBody).segments)

\* C25 case: a payload holding 150 in every numeric field of its candidate, over
\* segments that start before 0 or end before they start, returned with score 5,
\* confidence 100, quality 1 and a first segment moved to start at 0
C25_Witness ==
    /\ fieldsPc = "done"
    /\ Len(fieldsBody.rubric) > 0
    /\ fieldsBody.rubric[1].key = "problemSolving"
    /\ Len(fieldsBody.segments) = 3
    /\ fieldsBody.segments[1].start < 0
    /\ fieldsBody.segments[3].end < fieldsBody.segments[3].start
    /\ normalizedContextFromRequest(fieldsBody).segments[1].start = 0
    /\ isRecord(fieldsPayload)
    /\ Get(fieldsPayload, "dimensions").t = "array"
    /\ Get(Get(fieldsPayload, "dimensions").v[1], "confidence") = Num(15000)
    /\ fieldsReport.v.dimensions.v[1].v.score = Num(500)
    /\ fieldsReport.v.dimensions.v[1].v.confidence = Num(10000)
    /\ fieldsReport.v.dimensions.v[1].v.evidenceQuality = Num(100)
    /\ fieldsReport.v.dimensions.v[1].v.anchorAlignment.v.chosenLevel = Num(500)

\* the first pass stays inside the ranges as well
FirstPassValueRanges ==
    fieldsPc \in {"normalized", "done"} => valueRanges(fieldsNormalized)

\* a state whose confidence is inferred from quality, consistency and the cited
\* share rather than given or fixed
InferredConfidenceCase ==
    /\ fieldsPc = "done"
    /\ Len(fieldsReport.v.dimensions.v) > 0
    /\ fieldsReport.v.dimensions.v[1].v.confidence \notin {Num(0), Num(10000), Num(3400),
                                                            Num(3800), Num(6600)}

\* what C26 compares of a Scorecard
comparedFields(scorecard) ==
    [scores |-> [i \in 1..Len(scorecard.v.dimensions.v) |-> scorecard.v.dimensions.v[i].v.score],
     notObserved |-> [i \in 1..Len(scorecard.v.dimensions.v) |->
                         scorecard.v.dimensions.v[i].v.notObserved],
     segmentIds |-> [i \in 1..Len(scorecard.v.dimensions.v) |->
                        evidenceSegmentIds(scorecard.v.dimensions.v[i])],
     overallRecommendation |-> scorecard.v.overallRecommendation,
     leveling |-> scorecard.v.leveling,
     coverageMap |-> scorecard.v.coverageMap]

\* C26: normalizeReportResponse applied to its own output, with the same
\* request, returns the same dimension scores, notObserved flags, evidence
\* segment ids, overallRecommendation, leveling and coverage map
C26_NormalizationIsIdempotent ==
    /\ againPc # "threw"
    /\ againPc = "done" => comparedFields(againReport) = comparedFields(report)

\* with rubric keys that carry no surrounding whitespace the repeated call
\* returns the compared fields unchanged
IdempotentOnTrimmedKeys ==
    (againPc = "done" /\ trimmedKeys(requestBody.rubric)) => comparedFields(againReport) = comparedFields(report)

\* the repeated call never throws
RepeatedCallReturns == againPc # "threw"

\* C26 case: a rubric holding " problemSolving " and "problemSolving", payload
\* null: the report scores them null and 4 and recommends LeanHire, the repeated
\* call scores both null and recommends LeanNo
C26_Witness ==
    /\ againPc = "done"
    /\ payload = Null
    /\ requestBody.segments = <<>>
    /\ Len(requestBody.rubric) = 2
    /\ requestBody.rubric[1].key = " problemSolving "
    /\ requestBody.rubric[2].key = "problemSolving"
    /\ comparedFields(report).scores = <<Null, Num(400)>>
    /\ report.v.overallRecommendation = Str("LeanHire")
    /\ comparedFields(againReport).scores = <<Null, Null>>
    /\ againReport.v.overallRecommendation = Str("LeanNo")

\* map[q] of a map the loader returned, undefined for a missing key
loadedEntry(map, questionId) == IF questionId \in DOMAIN map THEN map[questionId] ELSE Undef

\* the loaded cache holds, for every positive question id, what the page held
sameAsSaved(loaded, cache) ==
    /\ DOMAIN loaded.transcriptions \subseteq Questions
    /\ DOMAIN loaded.reports \subseteq Questions
    /\ \A questionId \in Questions :
           /\ loadedEntry(loaded.transcriptions, questionId) = cache.transcriptions[questionId]
           /\ loadedEntry(loaded.reports, questionId) = cache.reports[questionId]

\* the stored text is JSON of an object of version 1
storedVersionOne ==
    /\ storageItem.t # "null"
    /\ storageItem.text # ""
    /\ storageItem.parsed.ok
    /\ storageItem.parsed.value.t = "object"
    /\ Get(storageItem.parsed.value, "schemaVersion") = Num(100)

\* the valid entries under positive whole keys of a stored object are loaded,
\* whatever the other entries are
validEntriesLoaded(loaded, stored) ==
    /\ \A rawKey \in DOMAIN recordOrEmpty(Get(stored, "reports")).v :
           (rawKey \in {"1", "2"} /\ isReportResponseBody(Get(stored, "reports").v[rawKey]))
               => /\ StringToNumber(rawKey).v \div 100 \in DOMAIN loaded.reports
                  /\ loaded.reports[StringToNumber(rawKey).v \div 100]
                         = Get(stored, "reports").v[rawKey]
    /\ \A rawKey \in DOMAIN recordOrEmpty(Get(stored, "transcriptions")).v :
           (rawKey \in {"1", "2"} /\ isTranscribeResponse(Get(stored, "transcriptions").v[rawKey]))
               => /\ StringToNumber(rawKey).v \div 100 \in DOMAIN loaded.transcriptions
                  /\ loaded.transcriptions[StringToNumber(rawKey).v \div 100]
                         = Get(stored, "transcriptions").v[rawKey]
    /\ \A questionId \in DOMAIN loaded.reports : isReportResponseBody(loaded.reports[questionId])
    /\ \A questionId \in DOMAIN loaded.transcriptions :
           isTranscribeResponse(loaded.transcriptions[questionId])

\* C27: every Scorecard of the normalizer or the mock generator that the page
\* holds is accepted by isReportResponseBody, a cache written by
\* saveReviewCache and read back by loadReviewCache returns the same reports
\* and transcriptions for every question id, a stored text of another
\* schemaVersion or that is no JSON loads as the empty cache, and an invalid
\* entry is dropped without dropping the others
C27_CacheRoundTrip ==
    /\ cachePc # "idle" =>
           \A questionId \in Questions :
               cacheState.reports[questionId].t # "undefined"
                   => isReportResponseBody(cacheState.reports[questionId])
    /\ cachePc = "reloaded" => sameAsSaved(loadedCache, cacheState)
    /\ (cachePc = "loaded" /\ ~storedVersionOne) => loadedCache = emptyReviewCache
    /\ (cachePc = "loaded" /\ storedVersionOne)
           => validEntriesLoaded(loadedCache, storageItem.parsed.value)

\* C27 case: a cache holding a transcription of two segments for question 1
\* and a normalized Scorecard for question 2, saved and loaded again
C27_Witness ==
    /\ cachePc = "reloaded"
    /\ cacheState.transcriptions[1].t = "object"
    /\ Len(cacheState.transcriptions[1].v.segments.v) = 2
    /\ cacheState.transcriptions[2].t = "undefined"
    /\ cacheState.reports[1].t = "undefined"
    /\ cacheState.reports[2].t = "object"
    /\ cacheState.reports[2].v.dimensions.v[1].v.score = Null
    /\ DOMAIN loadedCache.reports = {2}
    /\ loadedCache.reports[2] = cacheState.reports[2]
    /\ loadedCache.transcriptions[1] = cacheState.transcriptions[1]

\* a stored object of version 1 whose entry under "2" is invalid is loaded
\* with its entries under "1" and without the others
InvalidEntryDroppedCase ==
    /\ cachePc = "loaded"
    /\ storedVersionOne
    /\ Get(storageItem.parsed.value, "reports").t = "object"
    /\ ~isReportResponseBody(Get(storageItem.parsed.value, "reports").v["2"])
    /\ DOMAIN loadedCache.reports = {1}
    /\ DOMAIN loadedCache.transcriptions = {1}

\* a stored object of another version that holds valid entries loads as the empty cache
OtherVersionCase ==
    /\ cachePc = "loaded"
    /\ storageItem.t # "null"
    /\ storageItem.parsed.ok
    /\ Get(storageItem.parsed.value, "schemaVersion") = Num(200)
    /\ isReportResponseBody(Get(storageItem.parsed.value, "reports").v["1"])
    /\ loadedCache = emptyReviewCache

\* every Scorecard of both passes of the normalizer, of the legacy adapter and
\* of the mock generator is accepted by isReportResponseBody and is its own JSON
NormalizedScorecardIsAccepted ==
    /\ fieldsPc \in {"normalized", "done"}
           => /\ isReportResponseBody(scorecardValue(fieldsNormalized))
              /\ jsonOf(scorecardValue(fieldsNormalized)) = scorecardValue(fieldsNormalized)
    /\ fieldsPc = "done"
           => /\ isReportResponseBody(scorecardValue(fieldsReport))
              /\ jsonOf(scorecardValue(fieldsReport)) = scorecardValue(fieldsReport)

\* the report stored for q is one that generateReport returns for the
\* transcription stored for q and some reply of the report route
generatedFromStored(q) ==
    /\ transcriptions[q].t # "undefined"
    /\ \E reply \in ReviewReplies :
           /\ ~generateReportOutcome(transcriptions[q].v, reply).threw
           /\ generateReportOutcome(transcriptions[q].v, reply).report = reports[q]

\* C28: whenever a report is stored for question q it was generated from the
\* transcription currently stored for q
C28_ReportMatchesTranscription ==
    \A q \in Questions : reports[q].t # "undefined" => generatedFromStored(q)

\* C28 case: a report whose assessments count one available segment is stored
\* beside a transcription of two segments, with no request in flight
C28_Witness ==
    /\ reports[1].t = "object"
    /\ transcriptions[1].t = "array"
    /\ Len(transcriptions[1].v) = 2
    /\ reports[1].v.dimensions.v[1].v.evidenceCoverage.v.availableSegmentCount = Num(100)
    /\ reportFetchByQuestionId[1] = NoFetch
    /\ transcribeFetchByQuestionId[1].state = "none"
    /\ ~generatedFromStored(1)

\* a successful re-transcription of q removes q's report
RetranscriptionRemovesReport ==
    [][\A q \in TranscribedQuestions :
           (FinishTranscribeRecording(q) /\ transcriptions'[q] # transcriptions[q])
               => reports'[q] = Undef]_vars

\* the recorders that are recording, and those recording or being finalized
recordingRecorders == {r \in DOMAIN recorderState : recorderState[r] = "recording"}
activeRecorders ==
    recordingRecorders \cup
        {r \in DOMAIN finalizeCalls : finalizeCalls[r] \in {"queued", "awaiting"}}

\* C29: on the interview page at most one recorder is recording or being finalized at any
\* time, whatever the interleaving of record clicks, and the recording refs describe the
\* recorder that is recording.
C29_SingleActiveRecorder ==
    /\ Cardinality(activeRecorders) <= 1
    /\ \A r \in recordingRecorders :
        /\ mediaRecorderRef = r
        /\ recordingQuestionIdRef = startCalls[r].question

\* a second click arrived while the first startRecording was awaiting, and both
\* recorders were started
C29_Witness ==
    /\ Cardinality(recordingRecorders) = 2
    /\ \E r \in recordingRecorders : mediaRecorderRef # r

\* with a single startRecording call made, one recorder at most is active and the refs are its
SingleCallKeepsOneRecorder ==
    (\A i \in DOMAIN startCalls : i > 1 => startCalls[i].pc = "none")
        => C29_SingleActiveRecorder

\* a recorder is left recording with no ref to it and no question active
LeakedRecorderCase ==
    /\ recordingRecorders # {}
    /\ mediaRecorderRef = 0
    /\ activeQuestionId = 0

RECURSIVE sizeSum(_)
sizeSum(blobs) == IF blobs = <<>> THEN 0 ELSE Head(blobs).size + sizeSum(Tail(blobs))

chunkRowsOf(store, questionId) == {store[k] : k \in chunkKeysOf(store, questionId)}

\* the rows of a question agree with its metadata and with the blobs appended to it
rowsMatchMetadata(metadata, chunks, appended, questionId) ==
    LET rows == chunkRowsOf(chunks, questionId)
    IN  IF questionId \in DOMAIN metadata
        THEN /\ metadata[questionId].chunkCount = Cardinality(rows)
             /\ {row.index : row \in rows} = 0..(metadata[questionId].chunkCount - 1)
             /\ Len(appended[questionId]) = metadata[questionId].chunkCount
             /\ \A row \in rows : row.blob = appended[questionId][row.index + 1]
             /\ metadata[questionId].totalBytes = sizeSum(appended[questionId])
        ELSE rows = {}

\* the rows and the metadata of every other question are left as they were
othersUntouched(questionId) ==
    \A other \in DOMAIN appendedChunks \ {questionId} :
        /\ chunkRowsOf(chunkStore', other) = chunkRowsOf(chunkStore, other)
        /\ storeGet(metadataStore', other) = storeGet(metadataStore, other)

\* C30: after every completed initialize, append, finalize or delete the metadata
\* chunkCount of each question equals the number of its chunk rows, whose indices are
\* 0..chunkCount-1 in append order, and totalBytes is the sum of their sizes; initialize
\* leaves zero chunks, delete leaves neither metadata nor chunks, finalize changes no
\* chunk, and an operation on one question leaves every other question's rows unchanged.
C30_ChunkRowsMatchMetadata ==
    [][/\ \A q \in DOMAIN appendedChunks' :
            rowsMatchMetadata(metadataStore', chunkStore', appendedChunks', q)
       /\ \A q \in DOMAIN appendedChunks :
            /\ InitializeOn(q) =>
                   /\ chunkRowsOf(chunkStore', q) = {}
                   /\ storeGet(metadataStore', q).v.chunkCount = 0
                   /\ othersUntouched(q)
            /\ AppendOn(q) => othersUntouched(q)
            /\ FinalizeOn(q) => chunkStore' = chunkStore /\ othersUntouched(q)
            /\ DeleteInterviewRecording(q) =>
                   /\ chunkRowsOf(chunkStore', q) = {}
                   /\ q \notin DOMAIN metadataStore'
                   /\ othersUntouched(q)]_vars

\* one question holds two appended chunks with its metadata counting them, after an
\* earlier recording of it was initialized away, while another question holds rows too
C30_Witness ==
    /\ StoreIdle = FALSE
    /\ \E q \in DOMAIN metadataStore :
        /\ metadataStore[q].chunkCount = 2
        /\ metadataStore[q].totalBytes = 3
        /\ metadataStore[q].createdAt = "created"
        /\ Cardinality(chunkRowsOf(chunkStore, q)) = 2
        /\ \E other \in DOMAIN metadataStore \ {q} :
            /\ chunkRowsOf(chunkStore, other) # {}
            /\ metadataStore[other].createdAt = "now"

\* an append that finds no metadata starts a new count at zero, over no rows
AppendWithoutMetadataCase ==
    \E q \in DOMAIN metadataStore :
        /\ metadataStore[q].createdAt = "now"
        /\ metadataStore[q].chunkCount = 1

====
